---------------------------- MODULE Spec2Model ----------------------------
(***************************************************************************)
(* tjam: keyboard-driven polyphonic synthesizer.                           *)
(*                                                                         *)
(* The module models                                                       *)
(*   - the ADSR envelope of src/fx/adsr.rs (Adsr::to_envelope,             *)
(*     AdsrSource::new / step_envelope / next),                            *)
(*   - the voice table of src/play.rs (PlayState and its methods,          *)
(*     play_note, restart_active_notes, cycle_patch),                      *)
(*   - the two threads of run_audio: the polling thread and the control    *)
(*     loop, and the audio device pulling samples from the sinks.          *)
(*                                                                         *)
(* Numbers.  f32 amplitudes are carried as integers on a grid of 1/One:    *)
(* the value 1.0 is One.  One is chosen so that every step size the code   *)
(* computes (1/attack_samples, (1-sustain)/decay_samples,                  *)
(* current_amp/release_samples) is an exact grid point, so the arithmetic  *)
(* here is the exact rational arithmetic of the code's formulas; f32       *)
(* rounding error is not modelled.  Durations are carried as the product   *)
(* attack_s * sample_rate in half-sample units, so that round() has        *)
(* something to round.                                                     *)
(***************************************************************************)
EXTENDS Integers, Sequences, FiniteSets, TLC

\* ------------------------------------------------------------------ bounds
\* longest envelope stage, in samples, that the model draws
MaxSamples == 2
\* number of step_envelope calls recorded for one envelope under SpecEnv
MaxTrace == 8
\* number of stores into the gate of that envelope under SpecEnv
MaxGateWrites == 2
\* number of voices the voice table holds at once
MaxVoices == 2
\* number of messages the key-delta queue holds at once
MaxQueue == 1
\* samples a generator yields before take_duration(ENDLESS) ends it
\* (ENDLESS * SAMPLE_RATE in the program)
EndlessSamples == 3

\* ------------------------------------------------------------- arithmetic
RECURSIVE Gcd(_, _)
Gcd(a, b) == IF b = 0 THEN a ELSE Gcd(b, a % b)

RECURSIVE LcmUpTo(_)
LcmUpTo(n) == IF n <= 1 THEN 1 ELSE LET l == LcmUpTo(n - 1) IN (l * n) \div Gcd(l, n)

\* the grid value of 1.0f32: sustain levels are multiples of 1/2, stage
\* lengths divide LcmUpTo(MaxSamples), and release_step divides once more
One == 2 * LcmUpTo(MaxSamples) * LcmUpTo(MaxSamples)
Half == One \div 2

\* f32::clamp(x, lo, hi)
\* the f32 NaN: a value off the grid; every ordered comparison with it is
\* false (it is below every number of the model and never compared as one)
NaN == 0 - 1000000

\* f32::clamp: a NaN is returned as it is
clamp(x, lo, hi) ==
    IF x = NaN THEN x ELSE IF x < lo THEN lo ELSE IF x > hi THEN hi ELSE x

\* (d * sr).round() as u64, d * sr given in half samples: round half away
\* from zero, then a saturating cast (a negative value becomes 0)
round_as_u64(half) == IF half <= 0 THEN 0 ELSE (half + 1) \div 2

\* ------------------------------------------------------------- fx/adsr.rs
Stages == <<"Attack", "Decay", "Sustain", "Release", "Done">>

\* position of a stage in the enum Stage
StageRank(st) == CHOOSE i \in 1..Len(Stages) : Stages[i] = st

\* the struct Adsr: durations in half samples, sustain on the grid
Adsr_new(attack_s, decay_s, sustain, release_s) ==
    [attack_s |-> attack_s, decay_s |-> decay_s, sustain |-> sustain, release_s |-> release_s]

\* Adsr::to_envelope
to_envelope(adsr) ==
    LET attack_samples == round_as_u64(adsr.attack_s)
        decay_samples == round_as_u64(adsr.decay_s)
        release_samples == round_as_u64(adsr.release_s)
    IN [attack_samples |-> attack_samples,
        decay_samples |-> decay_samples,
        release_samples |-> release_samples,
        sustain |-> adsr.sustain,
        attack_step |-> IF attack_samples > 0 THEN One \div attack_samples ELSE One,
        decay_step |-> IF decay_samples > 0
                       THEN (One - adsr.sustain) \div decay_samples
                       ELSE One - adsr.sustain,
        release_step |-> IF release_samples > 0
                         THEN adsr.sustain \div release_samples
                         ELSE adsr.sustain]

\* AdsrSource::new; input is the number of samples the wrapped source still yields
AdsrSource_new(input, adsr) ==
    [input |-> input,
     envelope |-> to_envelope(adsr),
     stage |-> "Attack",
     stage_pos |-> 0,
     current_amp |-> 0]

\* step_envelope, lines 102-113: the gate read and the forced move to Release
GateCheckRetrigger(s, gate) ==
    IF ~gate /\ s.stage # "Release" /\ s.stage # "Done"
    THEN [s EXCEPT !.stage = "Release", !.stage_pos = 0,
                   !.envelope.release_step =
                       IF s.envelope.release_samples > 0
                       THEN s.current_amp \div s.envelope.release_samples
                       ELSE s.current_amp]
    ELSE IF gate /\ s.stage = "Release"
    THEN [s EXCEPT !.stage = "Attack", !.stage_pos = 0]
    ELSE s

GateCheckFixedStep(s, gate) ==
    IF ~gate /\ s.stage # "Release" /\ s.stage # "Done"
    THEN [s EXCEPT !.stage = "Release", !.stage_pos = 0]
    ELSE s

GateCheckRestarting(s, gate) ==
    IF ~gate /\ s.stage # "Done"
    THEN [s EXCEPT !.stage = "Release", !.stage_pos = 0,
                   !.envelope.release_step =
                       IF s.envelope.release_samples > 0
                       THEN s.current_amp \div s.envelope.release_samples
                       ELSE s.current_amp]
    ELSE s

GateCheck(s, gate) ==
    IF ~gate /\ s.stage # "Release" /\ s.stage # "Done"
    THEN [s EXCEPT !.stage = "Release", !.stage_pos = 0,
                   !.envelope.release_step =
                       IF s.envelope.release_samples > 0
                       THEN s.current_amp \div s.envelope.release_samples
                       ELSE s.current_amp]
    ELSE s

\* step_envelope, lines 116-124
StepAttackLate(s) ==
    LET pos == s.stage_pos + 1
        over == pos > s.envelope.attack_samples
    IN [s EXCEPT !.stage = IF over THEN "Decay" ELSE @,
                 !.stage_pos = IF over THEN 0 ELSE pos,
                 !.current_amp = (IF over THEN One ELSE @) + s.envelope.attack_step]

StepAttack(s) ==
    LET pos == s.stage_pos + 1
        over == pos >= s.envelope.attack_samples
    IN [s EXCEPT !.stage = IF over THEN "Decay" ELSE @,
                 !.stage_pos = IF over THEN 0 ELSE pos,
                 !.current_amp = (IF over THEN One ELSE @) + s.envelope.attack_step]

\* step_envelope, lines 125-133
StepDecay(s) ==
    LET pos == s.stage_pos + 1
        over == pos >= s.envelope.decay_samples
    IN [s EXCEPT !.stage = IF over THEN "Sustain" ELSE @,
                 !.stage_pos = IF over THEN 0 ELSE pos,
                 !.current_amp = (IF over THEN s.envelope.sustain ELSE @) - s.envelope.decay_step]

\* step_envelope, lines 134-136
StepSustainTimed(s) == [s EXCEPT !.stage = "Release", !.stage_pos = 0]

StepSustain(s) == [s EXCEPT !.current_amp = s.envelope.sustain]

\* step_envelope, lines 137-145
StepRelease(s) ==
    LET pos == s.stage_pos + 1
        over == pos >= s.envelope.release_samples
    IN [s EXCEPT !.stage = IF over THEN "Done" ELSE @,
                 !.stage_pos = IF over THEN 0 ELSE pos,
                 !.current_amp = (IF over THEN 0 ELSE @) - s.envelope.release_step]

\* step_envelope, lines 146-148
StepDone(s) == [s EXCEPT !.current_amp = 0]

\* step_envelope, lines 115-149: the match on the stage
StageStep(s) ==
    CASE s.stage = "Attack" -> StepAttack(s)
      [] s.stage = "Decay" -> StepDecay(s)
      [] s.stage = "Sustain" -> StepSustain(s)
      [] s.stage = "Release" -> StepRelease(s)
      [] s.stage = "Done" -> StepDone(s)

\* AdsrSource::step_envelope: the source after the call and the gain returned
step_envelope(s, gate) ==
    LET t == StageStep(GateCheck(s, gate))
    IN [src |-> t, gain |-> clamp(t.current_amp, 0, One)]

\* ------------------------------------------------- one envelope on its own
\* Envelope parameters drawn for one AdsrSource: durations from -1/2 sample
\* to MaxSamples samples, sustain from below 0 to above 1.
HalfDurations == (-1)..(2 * MaxSamples)
SustainLevels == {0 - Half, 0, Half, One, One + Half}
AdsrInputs ==
    {Adsr_new(a, d, s, r) : a \in HalfDurations, d \in HalfDurations,
                            s \in SustainLevels, r \in HalfDurations}

\* durations >= 0 and sustain in [0,1]
AdsrInRange(adsr) ==
    /\ adsr.attack_s >= 0 /\ adsr.decay_s >= 0 /\ adsr.release_s >= 0
    /\ adsr.sustain >= 0 /\ adsr.sustain <= One

\* ----------------------------------------------------------------- key.rs
\* Option<T>: None is <<>>, Some(x) is <<x>>
None == <<>>
Some(x) == <<x>>

KEYBOARD_BASE_OCTAVE == 4

create_key(note, octave) == [note |-> note, octave |-> octave]

\* key_from_keycode
key_from_keycode(keycode) ==
    LET base == KEYBOARD_BASE_OCTAVE IN
    CASE keycode = "A" -> Some(create_key("C", base))
      [] keycode = "S" -> Some(create_key("D", base))
      [] keycode = "D" -> Some(create_key("E", base))
      [] keycode = "F" -> Some(create_key("F", base))
      [] keycode = "G" -> Some(create_key("G", base))
      [] keycode = "H" -> Some(create_key("A", base))
      [] keycode = "J" -> Some(create_key("B", base))
      [] keycode = "K" -> Some(create_key("C", base + 1))
      [] keycode = "L" -> Some(create_key("D", base + 1))
      [] keycode = "Semicolon" -> Some(create_key("E", base + 1))
      [] keycode = "Apostrophe" -> Some(create_key("F", base + 1))
      [] keycode = "W" -> Some(create_key("Db", base))
      [] keycode = "E" -> Some(create_key("Eb", base))
      [] keycode = "T" -> Some(create_key("Gb", base))
      [] keycode = "Y" -> Some(create_key("Ab", base))
      [] keycode = "U" -> Some(create_key("Bb", base))
      [] keycode = "O" -> Some(create_key("Db", base + 1))
      [] keycode = "P" -> Some(create_key("Eb", base + 1))
      [] OTHER -> None

\* the key codes the model's keyboard has: two note keys, a key that maps to
\* no note, the cycle-patch key and the keys of the panic chords
Keyboard == {"A", "S", "Z", "B", "Escape", "C", "LControl"}

\* ------------------------------------------------------- patches/basic.rs
\* basic_source(kind): a patch is identified by its BasicKind
BasicKinds == <<"Sine", "Saw", "Square", "Triangle", "Noise">>
basic_source(kind) == kind

\* BasicSource::create_source: every kind ends in take_duration(ENDLESS), so
\* the source yields EndlessSamples samples and then ends
create_source(patch, key) == EndlessSamples

\* ---------------------------------------------------------------- play.rs
\* A voice is one ActiveNote (Sink, Gate) together with what the two
\* handles point to: the gate's value, the sink's controls (volume,
\* paused, whether its queue has run empty) and the AdsrSource appended to
\* the sink.  active_sinks maps every key code to its Vec of voices; a key
\* that is not in the HashMap has the empty sequence (the code never keeps
\* an empty Vec in the map).

\* the voices of the whole table, in one sequence
RECURSIVE AllVoicesOf(_, _)
AllVoicesOf(tbl, keys) ==
    IF keys = {} THEN <<>>
    ELSE LET k == CHOOSE x \in keys : TRUE
         IN tbl[k] \o AllVoicesOf(tbl, keys \ {k})
AllVoices(tbl) == AllVoicesOf(tbl, DOMAIN tbl)
VoiceCount(tbl) == Len(AllVoices(tbl))

\* the voices of one Vec, each changed by Op
RECURSIVE MapVoices(_, _)
MapVoices(Op(_), voices) ==
    IF voices = <<>> THEN <<>>
    ELSE <<Op(Head(voices))>> \o MapVoices(Op, Tail(voices))

gate_off(voice) == [voice EXCEPT !.gate = FALSE]

\* PlayState::new
PlayState_new == [k \in Keyboard |-> <<>>]

\* PlayState::stop_note
stop_note_removing(tbl, keycode) == [tbl EXCEPT ![keycode] = <<>>]

stop_note_all(tbl, keycode) ==
    [k \in DOMAIN tbl |-> MapVoices(gate_off, tbl[k])]

stop_note(tbl, keycode) ==
    [tbl EXCEPT ![keycode] = MapVoices(gate_off, @)]

\* PlayState::kill_all: every voice leaves the table with its gate stored
\* false and its sink stopped
kill_all_releasing(tbl) == [k \in Keyboard |-> MapVoices(gate_off, tbl[k])]

kill_all(tbl) == [k \in DOMAIN tbl |-> <<>>]

\* PlayState::kill_all, lines 62-65: what it does to a voice it drains
kill_voice(voice) == [voice EXCEPT !.gate = FALSE, !.sink.ended = TRUE]

\* the voices kill_all takes out of the table, as it leaves them
drained(tbl) == MapVoices(kill_voice, AllVoices(tbl))

\* Sink::empty
sink_empty(voice) == voice.sink.ended

\* PlayState::cleanup_finished
cleanup_finished(tbl) ==
    [k \in DOMAIN tbl |-> SelectSeq(tbl[k], LAMBDA v : ~sink_empty(v))]

\* PlayState::set_all_volume
set_all_volume(tbl, v) ==
    [k \in DOMAIN tbl |-> MapVoices(LAMBDA voice : [voice EXCEPT !.sink.volume = v], tbl[k])]

\* PlayState::set_all_muted
set_all_muted_rewinding(tbl, muted) ==
    [k \in DOMAIN tbl |-> MapVoices(LAMBDA voice : [voice EXCEPT !.sink.paused = muted, !.src.stage_pos = 0], tbl[k])]

set_all_muted(tbl, muted) ==
    [k \in DOMAIN tbl |-> MapVoices(LAMBDA voice : [voice EXCEPT !.sink.paused = muted], tbl[k])]

\* play_note
play_note_unchecked(tbl, r, keycode) ==
    [tbl EXCEPT ![keycode] = Append(@,
        [gate |-> TRUE,
         sink |-> [volume |-> r.volume, paused |-> r.muted, ended |-> FALSE],
         patch |-> r.current_patch,
         adsr |-> r.adsr,
         src |-> AdsrSource_new(create_source(r.current_patch, keycode), r.adsr)])]

play_note_unconfigured(tbl, r, keycode) ==
    LET key == key_from_keycode(keycode) IN
    IF key = None THEN tbl
    ELSE [tbl EXCEPT ![keycode] = Append(@,
             [gate |-> TRUE,
              sink |-> [volume |-> One, paused |-> FALSE, ended |-> FALSE],
              patch |-> r.current_patch,
              adsr |-> r.adsr,
              src |-> AdsrSource_new(create_source(r.current_patch, key[1]), r.adsr)])]

gate_on(voice) == [voice EXCEPT !.gate = TRUE]

play_note_reopening(tbl, r, keycode) ==
    LET key == key_from_keycode(keycode) IN
    IF key = None THEN tbl
    ELSE IF tbl[keycode] # <<>> THEN [tbl EXCEPT ![keycode] = MapVoices(gate_on, @)]
    ELSE [tbl EXCEPT ![keycode] = Append(@,
             [gate |-> TRUE,
              sink |-> [volume |-> r.volume, paused |-> r.muted, ended |-> FALSE],
              patch |-> r.current_patch,
              adsr |-> r.adsr,
              src |-> AdsrSource_new(create_source(r.current_patch, key[1]), r.adsr)])]

play_note(tbl, r, keycode) ==
    LET key == key_from_keycode(keycode) IN
    IF key = None THEN tbl
    ELSE [tbl EXCEPT ![keycode] = Append(@,
             [gate |-> TRUE,
              sink |-> [volume |-> r.volume, paused |-> r.muted, ended |-> FALSE],
              patch |-> r.current_patch,
              adsr |-> r.adsr,
              src |-> AdsrSource_new(create_source(r.current_patch, key[1]), r.adsr)])]

\* play_note for each key of a set (the voices of distinct keys do not
\* depend on the order of the calls)
RECURSIVE play_notes(_, _, _)
play_notes(tbl, r, keys) ==
    IF keys = {} THEN tbl
    ELSE LET k == CHOOSE x \in keys : TRUE
         IN play_notes(play_note(tbl, r, k), r, keys \ {k})

\* stop_note for each key of a set
RECURSIVE stop_notes(_, _)
stop_notes(tbl, keys) ==
    IF keys = {} THEN tbl
    ELSE LET k == CHOOSE x \in keys : TRUE
         IN stop_notes(stop_note(tbl, k), keys \ {k})

\* restart_active_notes
restart_active_notes_keeping(tbl, r) == tbl

restart_active_notes(tbl, r) == play_notes(kill_all(tbl), r, r.held_keys)

\* cycle_patch
cycle_patch(r) ==
    IF r.avaliable_patches = <<>> THEN r
    ELSE LET idx == (r.toggle_index + 1) % Len(r.avaliable_patches)
         IN [r EXCEPT !.toggle_index = idx,
                      !.current_patch = basic_source(
                          CASE idx = 0 -> "Sine"
                            [] idx = 1 -> "Saw"
                            [] idx = 2 -> "Square"
                            [] idx = 3 -> "Triangle"
                            [] idx = 4 -> "Noise"
                            [] OTHER -> "Sine")]

\* the AudioSnapshot publish_snapshot sends
snapshot_of(r) == [volume |-> r.volume, muted |-> r.muted, patch_name |-> r.current_patch]

\* A handler of the control loop runs its statements one after another;
\* each statement takes the handler's state (the runtime state, the voice
\* table, and the snapshot the handler has published so far, None until
\* it publishes) to the state after it.
HandlerStart(tbl, r) ==
    [step |-> "recv", rt |-> r, active_sinks |-> tbl, published |-> None]
\* an assignment to a field of rt
store_rt(st, r1) == [st EXCEPT !.step = "store", !.rt = r1]
\* publish_snapshot(&snapshot_tx, &rt)
publish_snapshot(st) ==
    [st EXCEPT !.step = "publish", !.published = Some(snapshot_of(st.rt))]
\* restart_active_notes(&mut play_state, &rt).await
restart_step(st) ==
    [st EXCEPT !.step = "restart",
               !.active_sinks = restart_active_notes(st.active_sinks, st.rt)]
\* play_state.cleanup_finished()
cleanup_step(st) ==
    [st EXCEPT !.step = "cleanup", !.active_sinks = cleanup_finished(st.active_sinks)]
\* the last state of a handler's run
Last(trace) == trace[Len(trace)]

\* the two statements every patch or envelope change ends with
restart_then_publish(st) ==
    LET q == restart_step(st) IN <<q, publish_snapshot(q)>>

publish_then_restart(st) ==
    LET p == publish_snapshot(st) IN <<p, restart_step(p)>>

\* run_audio, lines 248-267: one key delta, statement by statement
delta_trace(tbl, r, d) ==
    LET held == store_rt(HandlerStart(tbl, r), [r EXCEPT !.held_keys = d.now \ {"B"}])
        cycled == IF d.toggle_b
                  THEN LET c == store_rt(held, cycle_patch(held.rt))
                       IN <<c>> \o publish_then_restart(c)
                  ELSE <<>>
        st1 == IF cycled = <<>> THEN held ELSE Last(cycled)
        played == [st1 EXCEPT !.step = "play_note",
                      !.active_sinks = play_notes(st1.active_sinks, st1.rt,
                                                  (d.now \ d.prev) \ {"B"})]
        stopped == [played EXCEPT !.step = "stop_note",
                      !.active_sinks = stop_notes(played.active_sinks,
                                                  (d.prev \ d.now) \ {"B"})]
    IN <<held>> \o cycled \o <<played, stopped, cleanup_step(stopped)>>

\* run_audio, lines 248-267: one key delta, applied to the runtime state
\* and the voice table
apply_delta(tbl, r, d) ==
    LET last == Last(delta_trace(tbl, r, d))
    IN [rt |-> last.rt, active_sinks |-> last.active_sinks,
        published |-> last.published]

\* AdsrSource::next, on the voice that owns the source: the voice after
\* the call; the sink's queue runs empty when the source returns None
next_sample(voice) ==
    IF voice.src.stage = "Done" \/ voice.src.input = 0
    THEN [voice EXCEPT !.sink.ended = TRUE]
    ELSE LET r == step_envelope([voice.src EXCEPT !.input = @ - 1], voice.gate)
         IN [voice EXCEPT !.src = r.src, !.sink.ended = (r.src.stage = "Done")]

\* envelope parameters the model's runtime draws (the ADSR_* constants that
\* run_audio reads are not in config.rs): attack, decay of one sample,
\* sustain 0.5, release of two samples; and a two-sample decay to sustain 0
AdsrChoices == {Adsr_new(2, 2, Half, 4), Adsr_new(0, 4, 0, 2)}
\* the ADSR run_audio starts with
InitialAdsr == Adsr_new(2, 2, Half, 4)
\* volumes a SetVolume command carries: below 0, within range, above 2.0,
\* and the NaN
VolumeInputs == {0 - Half, Half, 2 * One + Half, NaN}
\* patches a SetPatch command carries
PatchInputs == {"Saw"}
\* patch lists a TogglePatch command carries
PatchListInputs == {<<>>, <<"Noise", "Sine">>}

\* audio_system.rs, AudioCommand: every command is a record of the same
\* shape, the fields its kind does not carry hold a filler
AudioCommand(kind, volume, muted, patches, patch, adsr) ==
    [kind |-> kind, volume |-> volume, muted |-> muted,
     patches |-> patches, patch |-> patch, adsr |-> adsr]
SetVolume(v) == AudioCommand("SetVolume", v, FALSE, <<>>, "", Adsr_new(0, 0, 0, 0))
SetMuted(m) == AudioCommand("SetMuted", 0, m, <<>>, "", Adsr_new(0, 0, 0, 0))
TogglePatch(patches) == AudioCommand("TogglePatch", 0, FALSE, patches, "", Adsr_new(0, 0, 0, 0))
SetPatch(patch) == AudioCommand("SetPatch", 0, FALSE, <<>>, patch, Adsr_new(0, 0, 0, 0))
SetAdsr(adsr) == AudioCommand("SetAdsr", 0, FALSE, <<>>, "", adsr)

\* the commands the UI sends
CommandInputs ==
    {SetVolume(v) : v \in VolumeInputs} \cup {SetMuted(m) : m \in BOOLEAN}
    \cup {TogglePatch(p) : p \in PatchListInputs}
    \cup {SetPatch(p) : p \in PatchInputs} \cup {SetAdsr(a) : a \in AdsrChoices}

\* run_audio, lines 276-308: one command, statement by statement
command_trace(tbl, r, cmd) ==
    LET st0 == HandlerStart(tbl, r)
        restarted(r1) ==
            LET a == store_rt(st0, r1)
                pr == publish_then_restart(a)
            IN <<a>> \o pr \o <<cleanup_step(Last(pr))>>
    IN CASE cmd.kind = "SetVolume" ->
              LET a == store_rt(st0, [r EXCEPT !.volume = clamp(cmd.volume, 0, 2 * One)])
                  b == [a EXCEPT !.step = "set_all_volume",
                           !.active_sinks = set_all_volume(a.active_sinks, a.rt.volume)]
                  c == publish_snapshot(b)
              IN <<a, b, c, cleanup_step(c)>>
         [] cmd.kind = "SetMuted" ->
              LET a == store_rt(st0, [r EXCEPT !.muted = cmd.muted])
                  b == [a EXCEPT !.step = "set_all_muted",
                           !.active_sinks = set_all_muted(a.active_sinks, a.rt.muted)]
                  c == publish_snapshot(b)
              IN <<a, b, c, cleanup_step(c)>>
         [] cmd.kind = "TogglePatch" ->
              IF cmd.patches # <<>>
              THEN restarted([r EXCEPT !.avaliable_patches = cmd.patches,
                                       !.toggle_index = 0,
                                       !.current_patch = basic_source("Sine")])
              ELSE <<cleanup_step(st0)>>
         [] cmd.kind = "SetPatch" ->
              restarted([r EXCEPT !.current_patch = cmd.patch])
         [] cmd.kind = "SetAdsr" ->
              restarted([r EXCEPT !.adsr = cmd.adsr])

\* run_audio, lines 276-308: one command, applied to the runtime state, the
\* voice table and the snapshot channel
on_command(tbl, r, snap, cmd) ==
    LET last == Last(command_trace(tbl, r, cmd))
    IN [rt |-> last.rt, active_sinks |-> last.active_sinks,
        snapshot |-> IF last.published = None THEN snap ELSE last.published[1]]

\* tokio::sync::mpsc, UnboundedReceiver::recv: the oldest message of the
\* channel, and the channel without it
recv_newest(q) == [msg |-> q[Len(q)], rest |-> SubSeq(q, 1, Len(q) - 1)]

recv(q) == [msg |-> Head(q), rest |-> Tail(q)]

\* tokio::sync::watch, Receiver::borrow: the value the channel holds, whole
borrow_torn(chan, old) == [old EXCEPT !.volume = chan.volume]

borrow(chan, old) == chan

\* What the world outside run_audio does in one run: the keys the player
\* touches, whether the terminal's focus changes, the commands the UI
\* sends, whether the UI reads the snapshot, how many more messages than
\* MaxQueue the control loop lets pile up, whether a source of events
\* disappears without a word, whether a shutdown signal or an interrupt
\* arrives.  A run draws one of these.
Scenes ==
    { [keys |-> {"A", "Z", "B", "Escape"}, focus |-> FALSE, commands |-> {},
       observer |-> FALSE, backlog |-> 0, closes |-> FALSE, signals |-> FALSE],
      [keys |-> {"A", "S"}, focus |-> TRUE, commands |-> {},
       observer |-> FALSE, backlog |-> 0, closes |-> FALSE, signals |-> FALSE],
      [keys |-> {"A"}, focus |-> FALSE, commands |-> CommandInputs,
       observer |-> FALSE, backlog |-> 0, closes |-> FALSE, signals |-> FALSE],
      [keys |-> {"A", "S"}, focus |-> FALSE, commands |-> {SetMuted(TRUE), SetMuted(FALSE)},
       observer |-> FALSE, backlog |-> 0, closes |-> FALSE, signals |-> FALSE],
      [keys |-> {"A", "B"}, focus |-> TRUE, commands |-> {},
       observer |-> FALSE, backlog |-> 0, closes |-> FALSE, signals |-> FALSE],
      [keys |-> {"B"}, focus |-> FALSE,
       commands |-> {SetVolume(Half), SetMuted(TRUE), SetMuted(FALSE)},
       observer |-> TRUE, backlog |-> 0, closes |-> FALSE, signals |-> FALSE],
      [keys |-> {"A"}, focus |-> FALSE, commands |-> {SetMuted(TRUE), SetMuted(FALSE)},
       observer |-> FALSE, backlog |-> 1, closes |-> FALSE, signals |-> TRUE],
      [keys |-> {"A"}, focus |-> FALSE, commands |-> {SetVolume(Half)},
       observer |-> FALSE, backlog |-> 0, closes |-> TRUE, signals |-> FALSE],
      [keys |-> {"C", "LControl"}, focus |-> TRUE, commands |-> {},
       observer |-> FALSE, backlog |-> 0, closes |-> FALSE, signals |-> FALSE] }
NoScene ==
    [keys |-> {}, focus |-> FALSE, commands |-> {},
     observer |-> FALSE, backlog |-> 0, closes |-> FALSE, signals |-> FALSE]

VARIABLES
    env_adsr,     \* SpecEnv: the Adsr the envelope under study was built from
    env_src,      \* SpecEnv: that AdsrSource
    env_gate,     \* SpecEnv: its Gate (Arc<AtomicBool>)
    env_writes,   \* SpecEnv: number of stores made into the gate
    env_trace,    \* SpecEnv: one record per step_envelope call made so far
    active_sinks, \* PlayState.active_sinks
    rt,           \* RuntimeState
    snapshot,     \* the value in the watch channel of AudioSnapshot
    poll,         \* the polling thread: prev, was_focused, running
    focused,      \* the AtomicBool focused
    stop_flag,    \* the AtomicBool stop_flag
    rx,           \* the key-delta channel, oldest message first
    cmd_rx,       \* the command channel, oldest command first
    ui_snap,      \* the UI's copy of the snapshot it read last
    cmd_open,     \* whether a sender of the command channel is left
    signal,       \* "none", "shutdown" (the watch turned true), "ctrl_c"
    ctl,          \* the control loop: "loop", "joining", "returned"
    scene,        \* what the world outside run_audio does in this run
    \* a PatchSource on its own
    patch_nodes,  \* PatchSource.nodes, in the order they were pushed
    patch_freq,   \* the frequency of the last create_source, or None
    patch_src,    \* the source the last create_source returned, or None
    \* a Key on its own
    key_k,        \* the Key as it is now
    key_prev,     \* the Key before the last transpose
    key_n,        \* the semitones of the last transpose
    \* audio_system.rs on its own
    AUDIO,        \* the OnceCell: None, or Some(the AudioSystem)
    channels,     \* the channel pairs created so far: command queue, snapshot value
    handles,      \* the AudioHandle each caller of get_handle holds, or None
    takes         \* what each call of take_runtime_channels returned

envvars == <<env_adsr, env_src, env_gate, env_writes, env_trace>>
sysvars == <<active_sinks, rt, snapshot, poll, focused, stop_flag, rx, cmd_rx, ui_snap, cmd_open, signal, ctl, scene>>
patchvars == <<patch_nodes, patch_freq, patch_src>>
keyvars == <<key_k, key_prev, key_n>>
cellvars == <<AUDIO, channels, handles, takes>>
libvars == <<patchvars, keyvars, cellvars>>
vars == <<envvars, sysvars, libvars>>

\* the state of the engine before run_audio has started: what the
\* variables of the engine hold under SpecEnv
SysIdle ==
    /\ active_sinks = PlayState_new
    /\ rt = [volume |-> One, muted |-> FALSE, adsr |-> Adsr_new(0, 0, 0, 0),
             current_patch |-> "Sine", avaliable_patches |-> BasicKinds,
             toggle_index |-> 0, held_keys |-> {}]
    /\ snapshot = snapshot_of(rt)
    /\ ui_snap = snapshot
    /\ cmd_open = TRUE
    /\ signal = "none"
    /\ poll = [prev |-> {}, was_focused |-> TRUE, running |-> FALSE]
    /\ focused = TRUE
    /\ stop_flag = FALSE
    /\ rx = <<>>
    /\ cmd_rx = <<>>
    /\ ctl = "returned"
    /\ scene = NoScene

\* no patch, no key and no AudioSystem under study
PatchIdle ==
    /\ patch_nodes = <<>>
    /\ patch_freq = None
    /\ patch_src = None
KeyIdle ==
    /\ key_k = create_key("C", 0)
    /\ key_prev = key_k
    /\ key_n = 0
CellIdle ==
    /\ AUDIO = None
    /\ channels = <<>>
    /\ handles = <<>>
    /\ takes = <<>>
LibIdle == PatchIdle /\ KeyIdle /\ CellIdle

\* no envelope under study: what the variables of SpecEnv hold under Spec
EnvIdle ==
    /\ env_adsr = Adsr_new(0, 0, 0, 0)
    /\ env_src = AdsrSource_new(0, env_adsr)
    /\ env_gate = TRUE
    /\ env_writes = 0
    /\ env_trace = <<>>

InitEnv ==
    /\ env_adsr \in AdsrInputs
    /\ env_src = AdsrSource_new(0, env_adsr)
    /\ env_gate = TRUE
    /\ env_writes = 0
    /\ env_trace = <<>>
    /\ SysIdle
    /\ LibIdle

\* the audio thread calls step_envelope once
EnvStep ==
    /\ Len(env_trace) < MaxTrace
    /\ LET r == step_envelope(env_src, env_gate)
       IN /\ env_src' = r.src
          /\ env_trace' = Append(env_trace,
                 [gate |-> env_gate, before |-> env_src.stage, before_amp |-> env_src.current_amp,
                  stage |-> r.src.stage, amp |-> r.src.current_amp,
                  release_step |-> r.src.envelope.release_step, gain |-> r.gain])
    /\ UNCHANGED <<env_adsr, env_gate, env_writes, sysvars, libvars>>

\* another thread stores b into the gate
EnvGate(b) ==
    /\ env_gate # b
    /\ env_writes < MaxGateWrites
    /\ env_gate' = b
    /\ env_writes' = env_writes + 1
    /\ UNCHANGED <<env_adsr, env_src, env_trace, sysvars, libvars>>

NextEnv == EnvStep \/ (\E b \in BOOLEAN : EnvGate(b))

SpecEnv == InitEnv /\ [][NextEnv]_vars

\* ------------------------------------------------------------ run_audio
\* run_audio, lines 155-188: the state when the control loop is entered
Init ==
    /\ EnvIdle
    /\ LibIdle
    /\ active_sinks = PlayState_new
    /\ rt = [volume |-> One, muted |-> FALSE, adsr |-> InitialAdsr,
             current_patch |-> basic_source("Sine"),
             avaliable_patches |-> BasicKinds,
             toggle_index |-> 0, held_keys |-> {}]
    /\ snapshot = snapshot_of(rt)
    /\ ui_snap = snapshot
    /\ cmd_open = TRUE
    /\ signal = "none"
    /\ poll = [prev |-> {}, was_focused |-> TRUE, running |-> TRUE]
    /\ focused = TRUE
    /\ stop_flag = FALSE
    /\ rx = <<>>
    /\ cmd_rx = <<>>
    /\ ctl = "loop"
    /\ scene \in Scenes

\* run_audio, line 228: the cycle-patch key B is down now and was not at
\* the previous sample
toggle_b_level(now, prev) == "B" \in now

toggle_b(now, prev) == "B" \in now /\ "B" \notin prev

\* run_audio, lines 220-221: the panic chord is down
panic_chord_escape_only(now) == "Escape" \in now

panic_chord(now) == "Escape" \in now \/ ("C" \in now /\ "LControl" \in now)

\* run_audio, lines 203-204: the delta sent on loss of focus
bulk_key_up_of_one(prev) ==
    [now |-> {}, prev |-> {CHOOSE k \in prev : TRUE}, toggle_b |-> FALSE]

bulk_key_up(prev) == [now |-> {}, prev |-> prev, toggle_b |-> FALSE]

\* run_audio, lines 190-232: one turn of the polling loop on the key set
\* now; the turn's message, if it sends one, and the thread's state after
poll_turn(p, is_stopped, is_focused, now) ==
    IF is_stopped
    THEN [send |-> <<None>>, poll |-> [p EXCEPT !.running = FALSE]]
    ELSE IF ~is_focused
    THEN IF p.was_focused
         THEN [send |-> IF p.prev # {}
                        THEN <<Some(bulk_key_up(p.prev))>>
                        ELSE <<>>,
               poll |-> [p EXCEPT !.prev = {}, !.was_focused = FALSE]]
         ELSE [send |-> <<>>, poll |-> p]
    ELSE IF ~p.was_focused
    THEN [send |-> <<>>, poll |-> [p EXCEPT !.prev = now, !.was_focused = TRUE]]
    ELSE IF panic_chord(now)
    THEN [send |-> <<None>>, poll |-> [p EXCEPT !.running = FALSE]]
    ELSE IF now # p.prev
    THEN [send |-> <<Some([now |-> now, prev |-> p.prev,
                           toggle_b |-> toggle_b(now, p.prev)])>>,
          poll |-> [p EXCEPT !.prev = now]]
    ELSE [send |-> <<>>, poll |-> p]

\* the number of messages a channel holds at most in this run
QueueCap == MaxQueue + scene.backlog

\* the polling thread takes one turn; device_state.get_keys() returns now
PollTick(now) ==
    /\ poll.running
    /\ now \subseteq scene.keys
    /\ LET t == poll_turn(poll, stop_flag, focused, now)
       IN /\ t.send = <<None>> \/ Len(rx) + Len(t.send) <= QueueCap
          /\ rx' = rx \o t.send
          /\ poll' = t.poll
    /\ UNCHANGED <<envvars, libvars, active_sinks, rt, snapshot, focused, stop_flag, ctl, cmd_rx, ui_snap, cmd_open, signal, scene>>

\* the terminal gains or loses focus
SetFocused(b) ==
    /\ ctl = "loop"
    /\ scene.focus
    /\ focused # b
    /\ focused' = b
    /\ UNCHANGED <<envvars, libvars, active_sinks, rt, snapshot, poll, stop_flag, rx, ctl, cmd_rx, ui_snap, cmd_open, signal, scene>>

\* the audio device pulls one sample from the i-th sink of key k
PullWaiting(k, i) ==
    /\ ctl = "loop"
    /\ rx = <<>> /\ cmd_rx = <<>>
    /\ i \in 1..Len(active_sinks[k])
    /\ ~active_sinks[k][i].sink.paused
    /\ ~active_sinks[k][i].sink.ended
    /\ active_sinks' = [active_sinks EXCEPT ![k][i] = next_sample(@)]
    /\ UNCHANGED <<envvars, libvars, rt, snapshot, poll, focused, stop_flag, rx, ctl, cmd_rx, ui_snap, cmd_open, signal, scene>>

Pull(k, i) ==
    /\ ctl = "loop"
    /\ i \in 1..Len(active_sinks[k])
    /\ ~active_sinks[k][i].sink.paused
    /\ ~active_sinks[k][i].sink.ended
    /\ active_sinks' = [active_sinks EXCEPT ![k][i] = next_sample(@)]
    /\ UNCHANGED <<envvars, libvars, rt, snapshot, poll, focused, stop_flag, rx, ctl, cmd_rx, ui_snap, cmd_open, signal, scene>>

\* run_audio, lines 246-268: the control loop receives a key delta
RecvDelta ==
    /\ ctl = "loop"
    /\ rx # <<>> /\ recv(rx).msg # None
    /\ LET d == recv(rx).msg[1]
           r == apply_delta(active_sinks, rt, d)
       IN /\ VoiceCount(r.active_sinks) <= MaxVoices
          /\ rt' = r.rt
          /\ active_sinks' = r.active_sinks
          /\ snapshot' = IF r.published = None THEN snapshot ELSE r.published[1]
    /\ rx' = recv(rx).rest
    /\ UNCHANGED <<envvars, libvars, poll, focused, stop_flag, ctl, cmd_rx, ui_snap, cmd_open, signal, scene>>

TeardownWithoutStop ==
    /\ stop_flag' = stop_flag
    /\ active_sinks' = kill_all(active_sinks)
    /\ ctl' = "joining"

\* run_audio, lines 313-314: what follows every break of the loop
Teardown ==
    /\ stop_flag' = TRUE
    /\ active_sinks' = kill_all(active_sinks)
    /\ ctl' = "joining"

\* run_audio, line 269: the polling thread's termination message
RecvQuit ==
    /\ ctl = "loop"
    /\ rx # <<>> /\ recv(rx).msg = None
    /\ rx' = recv(rx).rest
    /\ Teardown
    /\ UNCHANGED <<envvars, libvars, rt, snapshot, poll, focused, cmd_rx, ui_snap, cmd_open, signal, scene>>

\* the polling thread panics (DeviceState::new() finds no display): its
\* sender is dropped and no termination message is sent
PollerDies ==
    /\ scene.closes
    /\ poll.running
    /\ poll' = [poll EXCEPT !.running = FALSE]
    /\ UNCHANGED <<envvars, libvars, active_sinks, rt, snapshot, focused, stop_flag, rx, ctl, cmd_rx, ui_snap, cmd_open, signal, scene>>

\* every sender of the command channel is dropped
DropSenders ==
    /\ scene.closes
    /\ ctl = "loop"
    /\ cmd_open
    /\ cmd_open' = FALSE
    /\ UNCHANGED <<envvars, libvars, active_sinks, rt, snapshot, poll, focused, stop_flag, rx, ctl, cmd_rx, ui_snap, signal, scene>>

\* rx.recv() and cmd_rx.recv() return None: the channel is empty and no
\* sender of it is left
delta_closed(q, p) == q = <<>> /\ ~p.running

command_closed(q, open) == q = <<>> /\ ~open

\* run_audio, line 269: the key-delta channel is closed
RecvDeltaClosed ==
    /\ ctl = "loop"
    /\ delta_closed(rx, poll)
    /\ Teardown
    /\ UNCHANGED <<envvars, libvars, rt, snapshot, poll, focused, rx, cmd_rx, ui_snap, cmd_open, signal, scene>>

\* run_audio, line 274: the command channel is closed
RecvCommandClosed ==
    /\ ctl = "loop"
    /\ command_closed(cmd_rx, cmd_open)
    /\ Teardown
    /\ UNCHANGED <<envvars, libvars, rt, snapshot, poll, focused, rx, cmd_rx, ui_snap, cmd_open, signal, scene>>

\* the UI sends true on the shutdown channel, or the process is interrupted
Signals == {"shutdown", "ctrl_c"}

Signal(sig) ==
    /\ scene.signals
    /\ ctl = "loop"
    /\ signal = "none"
    /\ signal' = sig
    /\ UNCHANGED <<envvars, libvars, active_sinks, rt, snapshot, poll, focused, stop_flag, rx, cmd_rx, ui_snap, cmd_open, ctl, scene>>

\* run_audio, lines 240-244: the ctrl_c branch, or the shutdown branch
\* reading true
Shutdown ==
    /\ ctl = "loop"
    /\ signal # "none"
    /\ Teardown
    /\ UNCHANGED <<envvars, libvars, rt, snapshot, poll, focused, rx, cmd_rx, ui_snap, cmd_open, signal, scene>>

JoinWithoutWaiting ==
    /\ ctl = "joining"
    /\ ctl' = "returned"
    /\ UNCHANGED <<envvars, libvars, active_sinks, rt, snapshot, poll, focused, stop_flag, rx, cmd_rx, ui_snap, cmd_open, signal, scene>>

\* run_audio, lines 315-316: the join of the polling thread, and the return
Join ==
    /\ ctl = "joining"
    /\ ~poll.running
    /\ ctl' = "returned"
    /\ UNCHANGED <<envvars, libvars, active_sinks, rt, snapshot, poll, focused, stop_flag, rx, cmd_rx, ui_snap, cmd_open, signal, scene>>

\* AudioHandle::set_volume .. set_adsr: the UI sends a command
UiSend(cmd) ==
    /\ cmd \in scene.commands
    /\ cmd_open
    /\ ctl = "loop"
    /\ Len(cmd_rx) < QueueCap
    /\ cmd_rx' = Append(cmd_rx, cmd)
    /\ UNCHANGED <<envvars, libvars, active_sinks, rt, snapshot, poll, focused, stop_flag, rx, ctl, ui_snap, cmd_open, signal, scene>>

\* ui.rs, lines 73-76: the UI reads the snapshot channel
UiBorrow ==
    /\ scene.observer
    /\ ui_snap # snapshot
    /\ ui_snap' = borrow(snapshot, ui_snap)
    /\ UNCHANGED <<envvars, libvars, active_sinks, rt, snapshot, poll, focused, stop_flag, rx, cmd_rx, ctl, cmd_open, signal, scene>>

\* run_audio, lines 273-309: the control loop receives the command cmd
RecvCommand(cmd) ==
    /\ ctl = "loop"
    /\ cmd_rx # <<>> /\ recv(cmd_rx).msg = cmd
    /\ LET r == on_command(active_sinks, rt, snapshot, cmd)
       IN /\ VoiceCount(r.active_sinks) <= MaxVoices
          /\ rt' = r.rt
          /\ active_sinks' = r.active_sinks
          /\ snapshot' = r.snapshot
    /\ cmd_rx' = recv(cmd_rx).rest
    /\ UNCHANGED <<envvars, libvars, poll, focused, stop_flag, rx, ctl, ui_snap, cmd_open, signal, scene>>

\* run_audio, lines 277-281
CmdSetVolume(v) == RecvCommand(SetVolume(v))

\* run_audio, lines 282-286
CmdSetMuted(m) == RecvCommand(SetMuted(m))

\* run_audio, lines 287-295
CmdTogglePatch(patches) == RecvCommand(TogglePatch(patches))

\* run_audio, lines 296-300
CmdSetPatch(patch) == RecvCommand(SetPatch(patch))

\* run_audio, lines 301-305
CmdSetAdsr(adsr) == RecvCommand(SetAdsr(adsr))

Next ==
    \/ \E now \in SUBSET Keyboard : PollTick(now)
    \/ \E b \in BOOLEAN : SetFocused(b)
    \/ \E k \in Keyboard, i \in 1..MaxVoices : Pull(k, i)
    \/ RecvDelta
    \/ RecvQuit
    \/ PollerDies
    \/ DropSenders
    \/ RecvDeltaClosed
    \/ RecvCommandClosed
    \/ \E sig \in Signals : Signal(sig)
    \/ Shutdown
    \/ Join
    \/ \E cmd \in CommandInputs : UiSend(cmd)
    \/ UiBorrow
    \/ \E v \in VolumeInputs : CmdSetVolume(v)
    \/ \E m \in BOOLEAN : CmdSetMuted(m)
    \/ \E patches \in PatchListInputs : CmdTogglePatch(patches)
    \/ \E patch \in PatchInputs : CmdSetPatch(patch)
    \/ \E adsr \in AdsrChoices : CmdSetAdsr(adsr)

Spec == Init /\ [][Next]_vars

\* the turn at which the polling thread sees the stop flag
PollStop == stop_flag /\ \E now \in SUBSET Keyboard : PollTick(now)

\* tokio's select! picks among its ready branches at random, so the
\* shutdown branch, which stays ready once signalled, is taken; the
\* polling thread is an OS thread of its own and keeps taking turns (what
\* the keyboard shows at a turn is the player's choice, so only the turn
\* that sees the stop flag is forced); the join is the next statement
\* after the loop.
Fairness ==
    /\ WF_vars(Shutdown)
    /\ WF_vars(PollStop)
    /\ WF_vars(Join)

SpecFair == Spec /\ Fairness

\* ------------------------------------------------ claims on the envelope
EnvSteps == 1..Len(env_trace)
EnvGateHeld == \A i \in EnvSteps : env_trace[i].gate
EnvEnvelope == to_envelope(env_adsr)
\* the first call at which the gate was read false outside Release and Done
EnvReleasedAt(i) ==
    /\ i \in EnvSteps
    /\ ~env_trace[i].gate
    /\ env_trace[i].before \in {"Attack", "Decay", "Sustain"}

\* C1: the stage starts at Attack with amplitude 0; every call of
\* step_envelope leaves the stage where it is or moves it forward along
\* Attack, Decay, Sustain, Release, Done, by one stage at most while the
\* gate reads true; Done is never left.
C1_StageForward ==
    /\ env_trace = <<>> => env_src.stage = "Attack" /\ env_src.current_amp = 0
    /\ \A i \in EnvSteps :
          LET e == env_trace[i] IN
          /\ e.before = (IF i = 1 THEN "Attack" ELSE env_trace[i - 1].stage)
          /\ StageRank(e.stage) >= StageRank(e.before)
          /\ e.gate => StageRank(e.stage) <= StageRank(e.before) + 1
          /\ e.before = "Done" => e.stage = "Done"

\* an envelope released in Attack that reached Done, was stepped again in
\* Done, and whose gate was stored true again afterwards
C1_Witness ==
    /\ \E i \in EnvSteps : env_trace[i].before = "Attack" /\ env_trace[i].stage \in {"Release", "Done"}
    /\ \E i \in EnvSteps : env_trace[i].before = "Done" /\ env_trace[i].gate
    /\ \E i \in EnvSteps : env_trace[i].before = "Release" /\ env_trace[i].gate
    /\ env_src.stage = "Done"

\* C2: for durations >= 0 and sustain in [0,1], current_amp is within
\* [0,1] after every call of step_envelope.
C2_AmpInUnit ==
    AdsrInRange(env_adsr) =>
        \A i \in EnvSteps : env_trace[i].amp >= 0 /\ env_trace[i].amp <= One

\* C3: with the gate held true, durations >= 0 and sustain in [0,1]: the
\* gain does not fall during Attack, is 1.0 on the sample that ends
\* Attack, does not rise during Decay and stays at or above sustain there,
\* equals sustain on every sample computed in Sustain, and never rises
\* after the sample that ended Attack.
C3_GateHeldShape ==
    (AdsrInRange(env_adsr) /\ EnvGateHeld) =>
        \A i \in EnvSteps :
            LET e == env_trace[i]
                prev == IF i = 1 THEN 0 ELSE env_trace[i - 1].gain
            IN /\ e.before = "Attack" => e.gain >= prev
               /\ (e.before = "Attack" /\ e.stage = "Decay") => e.gain = One
               /\ e.before = "Decay" => e.gain <= prev /\ e.gain >= EnvEnvelope.sustain
               /\ e.before = "Sustain" => e.gain = EnvEnvelope.sustain
               /\ e.before # "Attack" => e.gain <= prev

\* C4: for durations >= 0 and sustain in [0,1], when the gate is read false
\* in Attack, Decay or Sustain, that call leaves the envelope in Release (in
\* Done when the release is one sample or less) with
\* release_step * max(1, release_samples) equal to current_amp as it was
\* before the call; from that call on the gain returned is never negative
\* and never rises, the first release gain is not above the amplitude held,
\* and not zero when the release lasts two samples or more and the
\* amplitude held was positive, and the gain is 0 from the
\* release_samples-th call of the release on.
C4_ProportionalRelease ==
    AdsrInRange(env_adsr) =>
    \A i \in EnvSteps :
        EnvReleasedAt(i) =>
            LET e == env_trace[i]
                n == EnvEnvelope.release_samples
                held == e.before_amp
            IN /\ e.stage \in {"Release", "Done"}
               /\ e.stage = "Done" <=> n <= 1
               /\ e.release_step * (IF n > 0 THEN n ELSE 1) = held
               /\ e.gain <= clamp(held, 0, One)
               /\ (n >= 2 /\ held > 0) => e.gain > 0
               /\ \A j \in EnvSteps :
                     j >= i =>
                        /\ env_trace[j].gain >= 0
                        /\ j > i => env_trace[j].gain <= env_trace[j - 1].gain
                        /\ env_trace[j].release_step = e.release_step
                        /\ j - i + 1 >= n => env_trace[j].gain = 0

\* -------------------------------------------- claims on the voice table
\* the voices of the table, each named by its key code and its position
VoiceIds == {<<k, i>> : k \in Keyboard, i \in 1..MaxVoices}
Voices == {id \in VoiceIds : id[2] <= Len(active_sinks[id[1]])}
VoiceOf(id) == active_sinks[id[1]][id[2]]
Sounding(k) == {i \in 1..Len(active_sinks[k]) : active_sinks[k][i].gate}

\* the key delta the control loop receives next, if one is waiting
DeltaWaiting == ctl = "loop" /\ rx # <<>> /\ Head(rx) # None
NextDelta == Head(rx)[1]
AfterNextDelta == apply_delta(active_sinks, rt, NextDelta).active_sinks
Pressed(d) == d.now \ d.prev
Released(d) == d.prev \ d.now
Unmapped(keys) == \A k \in keys : key_from_keycode(k) = None

\* C5: in every reachable state a voice whose envelope is in Release or
\* Done has its gate false; a voice whose gate reads true is in Attack,
\* Decay or Sustain.
C5_GateAuthority ==
    \A id \in Voices :
        /\ VoiceOf(id).src.stage \in {"Release", "Done"} => ~VoiceOf(id).gate
        /\ VoiceOf(id).gate => VoiceOf(id).src.stage \in {"Attack", "Decay", "Sustain"}

\* one voice in Release after its key-up, another still sustaining with
\* its gate on after samples were pulled from it
C5_Witness ==
    /\ \E id \in Voices : VoiceOf(id).src.stage = "Release" /\ ~VoiceOf(id).gate
    /\ \E id \in Voices : VoiceOf(id).src.stage = "Sustain" /\ VoiceOf(id).gate
                            /\ VoiceOf(id).src.input < EndlessSamples

\* C6: a voice whose gate is on has a sample sequence that has not ended,
\* and a voice whose sink has run empty (the voices cleanup_finished
\* removes) has its envelope in Done.
C6_EndlessWhileHeld ==
    \A id \in Voices :
        /\ VoiceOf(id).gate => ~sink_empty(VoiceOf(id))
        /\ sink_empty(VoiceOf(id)) => VoiceOf(id).src.stage = "Done"

\* C7: each key code has at most one voice whose gate is on.
C7_OneSoundingVoicePerKey ==
    \A k \in Keyboard : Cardinality(Sounding(k)) <= 1

\* every key that has a voice in the table maps to a note
OnlyMappedKeys == \A k \in Keyboard : active_sinks[k] # <<>> => key_from_keycode(k) # None
\* no voice's sink has run empty: cleanup_finished has nothing to remove
NothingFinished == \A id \in Voices : ~sink_empty(VoiceOf(id))
\* every voice of the table after is a voice of the table before, under the
\* same key, with the same sink and the same source
NoVoiceCreated(before, after) ==
    \A k \in Keyboard :
        /\ Len(after[k]) <= Len(before[k])
        /\ \A i \in 1..Len(after[k]) : \E j \in 1..Len(before[k]) :
               /\ after[k][i].src = before[k][j].src
               /\ after[k][i].sink = before[k][j].sink

\* C8, as stated: every key in the voice table is a mapped key, and
\* processing a delta whose newly pressed keys are all unmapped (one that
\* releases no key, while no voice has finished) leaves the voice table
\* unchanged.
C8_UnmappedKeyDownAsStated ==
    /\ OnlyMappedKeys
    /\ (/\ DeltaWaiting
        /\ Pressed(NextDelta) # {} /\ Unmapped(Pressed(NextDelta))
        /\ Released(NextDelta) = {} /\ NothingFinished)
       => AfterNextDelta = active_sinks

\* C8, amended: every key in the voice table is a mapped key, and
\* processing a delta whose newly pressed keys are all unmapped and that
\* carries no cycle-patch rising edge creates no voice; when it also
\* releases no key and no voice has finished, the voice table is unchanged.
C8_UnmappedKeyDown ==
    /\ OnlyMappedKeys
    /\ (DeltaWaiting /\ Unmapped(Pressed(NextDelta)) /\ ~NextDelta.toggle_b)
       => /\ NoVoiceCreated(active_sinks, AfterNextDelta)
          /\ (Released(NextDelta) = {} /\ NothingFinished)
                => AfterNextDelta = active_sinks

\* the control loop has processed the key-down of Z, which maps to no
\* note, while A is sounding: Z is held and has no voice
C8_Witness ==
    /\ "Z" \in rt.held_keys
    /\ active_sinks["Z"] = <<>>
    /\ Sounding("A") # {}

\* C9: stop_note for a key that has no voice returns the table as it was,
\* every gate and every sink included; a delta that only releases keys
\* without voices changes the table by its cleanup_finished alone.
C9_ReleaseWithoutVoice ==
    /\ \A k \in Keyboard :
          active_sinks[k] = <<>> => stop_note(active_sinks, k) = active_sinks
    /\ (/\ DeltaWaiting
        /\ Pressed(NextDelta) = {}
        /\ \A k \in Released(NextDelta) : active_sinks[k] = <<>>)
       => AfterNextDelta = cleanup_finished(active_sinks)

\* the control loop is about to process the key-up of a key that has no
\* voice, while another key is sounding
C9_Witness ==
    /\ DeltaWaiting
    /\ Pressed(NextDelta) = {} /\ Released(NextDelta) # {}
    /\ \A k \in Released(NextDelta) : active_sinks[k] = <<>>
    /\ \E k \in Keyboard : Sounding(k) # {}

\* C10: stop_note on key k leaves every Vec of the table at its length,
\* stores false into the gate of every voice of k and changes nothing else
\* of those voices, and leaves the voices of every other key as they were.
C10_ReleaseFrame ==
    \A k \in Keyboard :
        LET after == stop_note(active_sinks, k) IN
        /\ DOMAIN after = DOMAIN active_sinks
        /\ \A j \in Keyboard : Len(after[j]) = Len(active_sinks[j])
        /\ \A i \in 1..Len(active_sinks[k]) :
              /\ ~after[k][i].gate
              /\ [after[k][i] EXCEPT !.gate = active_sinks[k][i].gate] = active_sinks[k][i]
        /\ \A j \in Keyboard \ {k} : after[j] = active_sinks[j]

\* the key-up of A has been processed and not yet rendered (its voice is
\* registered, gate false, envelope not yet in Release) while S sounds on
C10_Witness ==
    /\ \E i \in 1..Len(active_sinks["A"]) :
          /\ ~active_sinks["A"][i].gate
          /\ active_sinks["A"][i].src.stage \in {"Attack", "Decay", "Sustain"}
    /\ Sounding("S") # {}
    /\ "A" \notin rt.held_keys /\ "S" \in rt.held_keys

\* C11: stop_note applied twice to a key gives what it gives applied once;
\* on a key whose voices are all released already (whatever number of
\* samples was rendered since) it changes nothing; the gate read of a
\* released envelope in Release or Done leaves the envelope as it is (stage
\* position and release step included); and a delta that only releases
\* keys released before changes the table by its cleanup_finished alone.
C11_ReleaseIdempotent ==
    /\ \A k \in Keyboard :
          /\ stop_note(stop_note(active_sinks, k), k) = stop_note(active_sinks, k)
          /\ Sounding(k) = {} => stop_note(active_sinks, k) = active_sinks
    /\ \A id \in Voices :
          (~VoiceOf(id).gate /\ VoiceOf(id).src.stage \in {"Release", "Done"})
             => GateCheck(VoiceOf(id).src, VoiceOf(id).gate) = VoiceOf(id).src
    /\ (/\ DeltaWaiting
        /\ Pressed(NextDelta) = {}
        /\ \A k \in Released(NextDelta) : Sounding(k) = {})
       => AfterNextDelta = cleanup_finished(active_sinks)

\* the key-up of a key is about to be processed a second time (the first
\* was the bulk key-up of a focus loss) while its voice is in Release,
\* one release sample rendered
C11_Witness ==
    /\ DeltaWaiting
    /\ \E k \in Released(NextDelta) :
          /\ active_sinks[k] # <<>> /\ Sounding(k) = {}
          /\ \E i \in 1..Len(active_sinks[k]) :
                /\ active_sinks[k][i].src.stage = "Release"
                /\ active_sinks[k][i].src.stage_pos > 0

\* ------------------------------------------------- claims on the commands
\* the command the control loop receives next, if one is waiting
CommandWaiting == ctl = "loop" /\ cmd_rx # <<>>
NextCommand == Head(cmd_rx)
AfterNextCommand == on_command(active_sinks, rt, snapshot, NextCommand)
\* a volume within [0, 2]
VolumeInRange(v) == v # NaN /\ 0 <= v /\ v <= 2 * One

\* C12: the runtime volume is within [0, 2] in every reachable state, and
\* the snapshot published by SetVolume(x) reports a volume within [0, 2]
\* that is x when x is within [0, 2], 0 when x is below 0 and 2 when x is
\* above 2.
C12_VolumeRoundTrip ==
    /\ VolumeInRange(rt.volume)
    /\ (CommandWaiting /\ NextCommand.kind = "SetVolume")
       => LET x == NextCommand.volume
              reported == AfterNextCommand.snapshot.volume
          IN /\ VolumeInRange(reported)
             /\ VolumeInRange(x) => reported = x
             /\ (x # NaN /\ x < 0) => reported = 0
             /\ (x # NaN /\ x > 2 * One) => reported = 2 * One

\* C13: every voice in the voice table has the runtime volume as its sink
\* volume and is paused exactly when the runtime muted flag is true.
C13_VoicesFollowVolumeAndMute ==
    \A id \in Voices :
        /\ VoiceOf(id).sink.volume = rt.volume
        /\ VoiceOf(id).sink.paused = rt.muted

\* muted, at a volume that is not the initial one, with a voice that
\* reached Sustain before the mute (a paused sink renders nothing) and a
\* voice started since
C13_Witness ==
    /\ rt.muted /\ rt.volume # One
    /\ \E id \in Voices : VoiceOf(id).src.stage = "Sustain"
    /\ \E id \in Voices : VoiceOf(id).src.stage = "Attack" /\ VoiceOf(id).gate
                            /\ VoiceOf(id).src.input = EndlessSamples

\* the voice table after SetMuted(m) has been processed in this state
AfterSetMuted(m) == on_command(active_sinks, rt, snapshot, SetMuted(m)).active_sinks
\* the voice table after SetMuted(true) and then SetMuted(false) have been
\* processed in this state
AfterMuteUnmute ==
    LET m1 == on_command(active_sinks, rt, snapshot, SetMuted(TRUE))
    IN on_command(m1.active_sinks, m1.rt, m1.snapshot, SetMuted(FALSE)).active_sinks
\* the voices of after are the voices of before, one for one, each with the
\* envelope (stage, stage position, amplitude, steps, samples left) and
\* the gate it had
SameVoices(before, after) ==
    \A k \in Keyboard :
        /\ Len(after[k]) = Len(before[k])
        /\ \A i \in 1..Len(before[k]) :
              /\ after[k][i].src = before[k][i].src
              /\ after[k][i].gate = before[k][i].gate
\* the table without the voices whose sink has run empty
Unfinished(tbl) == [k \in Keyboard |-> SelectSeq(tbl[k], LAMBDA v : ~v.sink.ended)]
MappedKeys(keys) == {k \in keys : key_from_keycode(k) # None}
\* a delta whose newly pressed keys are two or more keys, all mapped, gives
\* each of them one new voice with its gate on, and a release of one of
\* them leaves the gates of the others on
TwoKeysTwoVoices ==
    (/\ DeltaWaiting
     /\ Pressed(NextDelta) = MappedKeys(Pressed(NextDelta))
     /\ Cardinality(Pressed(NextDelta)) >= 2)
    => \A k \in Pressed(NextDelta) :
          /\ Len(AfterNextDelta[k]) = Len(Unfinished(active_sinks)[k]) + 1
          /\ AfterNextDelta[k][Len(AfterNextDelta[k])].gate
          /\ \A j \in Pressed(NextDelta) \ {k} :
                stop_note(AfterNextDelta, j)[k] = AfterNextDelta[k]

\* C14, as stated: SetMuted(true) followed by SetMuted(false) leaves every
\* voice of the table in the table with the envelope and the gate it had,
\* and two distinct mapped keys pressed in one delta yield two voices with
\* distinct gates.
C14_MuteUnmuteAsStated ==
    /\ SameVoices(active_sinks, AfterMuteUnmute)
    /\ TwoKeysTwoVoices

\* C14, amended: SetMuted(true) followed by SetMuted(false), and each of
\* the two alone, leaves every voice whose sink has not run empty in the
\* table with the envelope and the gate it had (voices whose sink has run
\* empty are dropped, as by every event); while muted every sink is
\* paused; and two distinct mapped keys pressed in one delta yield two
\* voices with distinct gates.
C14_MuteUnmute ==
    /\ SameVoices(Unfinished(active_sinks), AfterMuteUnmute)
    /\ \A m \in BOOLEAN : SameVoices(Unfinished(active_sinks), AfterSetMuted(m))
    /\ \A id \in Voices : VoiceOf(id).sink.paused = rt.muted
    /\ TwoKeysTwoVoices

\* muted, the unmute about to be processed, with a voice of A released in
\* mid-envelope and a voice of S sounding in mid-envelope
C14_Witness ==
    /\ rt.muted
    /\ CommandWaiting /\ NextCommand = SetMuted(FALSE)
    /\ \E i \in 1..Len(active_sinks["A"]) :
          ~active_sinks["A"][i].gate /\ active_sinks["A"][i].src.stage_pos > 0
    /\ \E i \in 1..Len(active_sinks["S"]) :
          active_sinks["S"][i].gate /\ active_sinks["S"][i].src.stage = "Sustain"

\* the keys that have a voice with its gate on
SoundingKeys(tbl) ==
    {k \in Keyboard : \E i \in 1..Len(tbl[k]) : tbl[k][i].gate}
\* a command that changes the patch or the envelope is waiting
RestartCommandWaiting ==
    /\ CommandWaiting
    /\ \/ NextCommand.kind \in {"SetPatch", "SetAdsr"}
       \/ NextCommand.kind = "TogglePatch" /\ NextCommand.patches # <<>>
\* a delta is waiting in which the cycle-patch key goes down and no other
\* key changes
CyclePatchWaiting ==
    /\ DeltaWaiting
    /\ Pressed(NextDelta) = {"B"} /\ Released(NextDelta) = {}
\* the held keys and the voices after a patch or envelope change, against
\* those before it
RestartedExactly(held_after, after) ==
    /\ held_after = rt.held_keys
    /\ SoundingKeys(after) = SoundingKeys(active_sinks)
    /\ \A k \in SoundingKeys(after) : Len(after[k]) = 1
    /\ \A k \in Keyboard \ SoundingKeys(active_sinks) : after[k] = <<>>

\* C15: processing SetPatch, SetAdsr, TogglePatch with a list, or a rising
\* edge of the cycle-patch key leaves the held-key set as it was, leaves
\* the set of keys with a gate-on voice as it was, leaves each such key
\* with exactly one voice, and starts no voice for a key that had no
\* gate-on voice.
C15_RestartExactlySounding ==
    /\ RestartCommandWaiting
         => RestartedExactly(AfterNextCommand.rt.held_keys, AfterNextCommand.active_sinks)
    /\ CyclePatchWaiting
         => RestartedExactly(apply_delta(active_sinks, rt, NextDelta).rt.held_keys,
                             AfterNextDelta)

\* C16: every voice in the voice table was created from the active patch
\* and from the current ADSR parameters, and its envelope still has the
\* sample counts, the sustain level and the attack and decay steps those
\* parameters give (and their release step, until the envelope itself
\* rescales it on reading its gate false).
C16_NoHotPatch ==
    \A id \in Voices :
        LET v == VoiceOf(id)
            e == to_envelope(rt.adsr)
        IN /\ v.patch = rt.current_patch
           /\ v.adsr = rt.adsr
           /\ v.src.envelope.attack_samples = e.attack_samples
           /\ v.src.envelope.decay_samples = e.decay_samples
           /\ v.src.envelope.release_samples = e.release_samples
           /\ v.src.envelope.sustain = e.sustain
           /\ v.src.envelope.attack_step = e.attack_step
           /\ v.src.envelope.decay_step = e.decay_step
           /\ v.src.stage \in {"Attack", "Decay", "Sustain"}
                 => v.src.envelope.release_step = e.release_step

\* after a SetAdsr and a SetPatch that changed both: a voice released in
\* mid-envelope and a voice sounding, both made from the new values
C16_Witness ==
    /\ rt.adsr # InitialAdsr /\ rt.current_patch # basic_source("Sine")
    /\ \E id \in Voices : ~VoiceOf(id).gate /\ VoiceOf(id).src.stage_pos > 0
    /\ \E id \in Voices : VoiceOf(id).gate /\ VoiceOf(id).src.stage_pos > 0

\* in the run of a handler the snapshot is published once, with the
\* runtime values the handler ends with, while the voice table is still the
\* one the handler started with, and the voices are restarted afterwards
PublishBeforeRestart(trace) ==
    \E i \in 1..Len(trace), j \in 1..Len(trace) :
        /\ i < j
        /\ trace[i].step = "publish" /\ trace[j].step = "restart"
        /\ trace[i].published = Some(snapshot_of(Last(trace).rt))
        /\ trace[i].active_sinks = active_sinks
        /\ \A n \in 1..Len(trace) :
              /\ trace[n].step = "restart" => n = j
              /\ trace[n].step = "publish" => n = i

\* C17: the snapshot in the channel is (runtime volume, runtime muted, name
\* of the active patch) in every state between two events; a SetVolume or
\* SetMuted publishes the values it stored; and a patch or envelope change
\* (command or cycle-patch edge) publishes before it restarts the voices.
C17_SnapshotFollowsRuntime ==
    /\ snapshot = [volume |-> rt.volume, muted |-> rt.muted,
                   patch_name |-> rt.current_patch]
    /\ (CommandWaiting /\ NextCommand.kind \in {"SetVolume", "SetMuted"})
         => \E i \in 1..Len(command_trace(active_sinks, rt, NextCommand)) :
               LET st == command_trace(active_sinks, rt, NextCommand)[i]
               IN st.step = "publish" /\ st.published = Some(AfterNextCommand.snapshot)
    /\ RestartCommandWaiting
         => PublishBeforeRestart(command_trace(active_sinks, rt, NextCommand))
    /\ (DeltaWaiting /\ NextDelta.toggle_b)
         => PublishBeforeRestart(delta_trace(active_sinks, rt, NextDelta))

\* a SetPatch that changes the patch is about to be processed while a voice
\* of the old patch sustains, after a SetVolume and a SetMuted were published
C17_Witness ==
    /\ CommandWaiting /\ NextCommand.kind = "SetPatch"
    /\ NextCommand.patch # rt.current_patch
    /\ snapshot.volume # One /\ ~snapshot.muted
    /\ \E id \in Voices : VoiceOf(id).gate /\ VoiceOf(id).src.stage = "Sustain"
    /\ AfterNextCommand.snapshot # snapshot

\* C18: whenever the value in the snapshot channel changes, the new value
\* is the triple of one publish (the runtime volume, muted flag and patch
\* name of that moment); whenever the UI reads, the value it obtains is the
\* whole value the channel holds at that moment, so every value it ever
\* holds is the latest publish or an earlier one.
C18_NoTornRead ==
    [][/\ snapshot' # snapshot => snapshot' = snapshot_of(rt')
       /\ ui_snap' # ui_snap => ui_snap' = snapshot]_vars

\* the UI holds a published value that is neither the initial one nor the
\* latest: two of its fields have been republished since it read
C18_Witness ==
    /\ ui_snap # snapshot_of([volume |-> One, muted |-> FALSE, current_patch |-> "Sine"])
    /\ ui_snap.muted # snapshot.muted
    /\ ui_snap.patch_name # snapshot.patch_name

\* a message was appended at the end of the channel q
SentOn(q, q2) == Len(q2) = Len(q) + 1 /\ SubSeq(q2, 1, Len(q)) = q

\* the oldest message of the channel q was taken out of it
DequeuedFrom(q, q2) == q # <<>> /\ q2 = Tail(q)

\* C19: every change of the command channel is a command appended at its
\* end, the engine untouched, or its oldest command taken out and applied
\* whole (runtime state, voice table and snapshot are those the complete
\* handler leaves); the same for the key-delta channel, whose termination
\* message ends the loop; and the runtime state and the snapshot change
\* in no step other than such a dequeue, so no half-applied event is there
\* when the next is dequeued.
C19_ArrivalOrder ==
    [][/\ cmd_rx' # cmd_rx =>
            \/ /\ SentOn(cmd_rx, cmd_rx')
               /\ UNCHANGED <<active_sinks, rt, snapshot, rx>>
            \/ /\ DequeuedFrom(cmd_rx, cmd_rx')
               /\ LET r == on_command(active_sinks, rt, snapshot, Head(cmd_rx))
                  IN <<rt', active_sinks', snapshot'>> = <<r.rt, r.active_sinks, r.snapshot>>
               /\ UNCHANGED rx
       /\ rx' # rx =>
            \/ /\ SentOn(rx, rx')
               /\ UNCHANGED <<active_sinks, rt, snapshot, cmd_rx>>
            \/ /\ DequeuedFrom(rx, rx')
               /\ IF Head(rx) = None
                  THEN ctl' # "loop" /\ UNCHANGED <<rt, snapshot>>
                  ELSE LET r == apply_delta(active_sinks, rt, Head(rx)[1])
                       IN /\ <<rt', active_sinks'>> = <<r.rt, r.active_sinks>>
                          /\ snapshot' = IF r.published = None THEN snapshot
                                         ELSE r.published[1]
               /\ UNCHANGED cmd_rx
       /\ (rt' # rt \/ snapshot' # snapshot) =>
            DequeuedFrom(cmd_rx, cmd_rx') \/ DequeuedFrom(rx, rx')]_vars

\* a command has been applied, and two different commands and two
\* different key deltas are waiting behind it
C19_Witness ==
    /\ rt.muted
    /\ Len(cmd_rx) = 2 /\ cmd_rx[1] # cmd_rx[2]
    /\ Len(rx) = 2 /\ rx[1] # rx[2]

\* the termination message of the polling thread is the next key-delta
\* message
QuitWaiting == rx # <<>> /\ Head(rx) = None

\* C20: while the loop runs, a closed key-delta channel and a closed
\* command channel each let the loop break, and the polling thread's
\* termination message, once dequeued, breaks it; every step that leaves
\* the loop sets the stop flag and leaves no voice in the table; the only
\* step after that is the return, taken once the polling thread has ended,
\* and nothing follows the return.
C20_SourceGoneIsShutdown ==
    /\ [](ctl = "loop" /\ delta_closed(rx, poll) => ENABLED RecvDeltaClosed)
    /\ [](ctl = "loop" /\ command_closed(cmd_rx, cmd_open) => ENABLED RecvCommandClosed)
    /\ [][/\ (ctl = "loop" /\ QuitWaiting /\ rx' # rx) => ctl' = "joining"
          /\ (ctl = "loop" /\ ctl' # "loop") =>
                /\ ctl' = "joining"
                /\ stop_flag'
                /\ VoiceCount(active_sinks') = 0
          /\ (ctl = "joining" /\ ctl' # "joining") =>
                ctl' = "returned" /\ ~poll.running
          /\ ctl = "returned" => ctl' = "returned"]_vars

\* both sources disappeared without a termination message while a voice
\* was in the table, and run_audio has returned
C20_Witness ==
    /\ ctl = "returned"
    /\ ~cmd_open
    /\ rx = <<>> /\ ~poll.running
    /\ rt.held_keys # {}
    /\ VoiceCount(active_sinks) = 0

\* Claims on termination

\* C21: once the shutdown channel has turned true or the interrupt has
\* arrived, run_audio eventually returns, the stop flag set and the polling
\* thread ended, whatever waits in the two channels.
C21_Termination ==
    (signal # "none") ~> (ctl = "returned" /\ stop_flag /\ ~poll.running)

\* run_audio has returned after a signal while a command and a key delta
\* were still waiting
C21_Witness ==
    /\ signal # "none"
    /\ ctl = "returned"
    /\ cmd_rx # <<>>
    /\ \E i \in 1..Len(rx) : rx[i] # None

\* C22: whenever the loop may be left, the voices kill_all drains are left
\* with the gate false and the sink stopped, their envelopes where they
\* were (no release sample is rendered); every step that leaves the loop
\* drains the whole table; once run_audio has returned the table is empty,
\* the polling thread has ended, and neither the key-delta channel nor the
\* voice table changes any more.
C22_CleanReturn ==
    /\ [](ctl = "loop" =>
            LET before == AllVoices(active_sinks)
                after == drained(active_sinks)
            IN \A i \in 1..Len(before) :
                    /\ ~after[i].gate
                    /\ after[i].sink.ended
                    /\ after[i].src = before[i].src)
    /\ [](ctl = "returned" =>
            VoiceCount(active_sinks) = 0 /\ stop_flag /\ ~poll.running)
    /\ [][/\ (ctl = "loop" /\ ctl' # "loop") => active_sinks' = kill_all(active_sinks)
          /\ ctl # "loop" => active_sinks' = active_sinks
          /\ ctl = "returned" => rx' = rx]_vars

\* run_audio has returned from a loop in which a key was held, and a key
\* delta the polling thread wrote before it ended was never applied
C22_Witness ==
    /\ ctl = "returned"
    /\ rt.held_keys # {}
    /\ \E i \in 1..Len(rx) : rx[i] # None

\* Claims on the reconciler

\* the polling thread is in its focused branch: not stopped, focused now
\* and at its turn before
PollFocused == poll.running /\ ~stop_flag /\ focused /\ poll.was_focused

\* the panic chord is among the keys now
PanicChord(now) == "Escape" \in now \/ ("C" \in now /\ "LControl" \in now)

\* the voices of key k whose gate is on, in the table tbl
GateOn(tbl, k) == {i \in 1..Len(tbl[k]) : tbl[k][i].gate}

\* C23: while focused, a turn of the polling thread on a key set without
\* the panic chord sends one delta (now, prev) when the set differs from
\* the previous one and nothing when it is equal; processing a delta
\* leaves every newly pressed mapped key other than B with exactly one
\* gate-on voice, every newly released key with no gate-on voice, and
\* the voices of every other key as they were (finished ones removed).
C23_DeltaPerChange ==
    /\ PollFocused =>
          \A now \in SUBSET scene.keys :
              ~PanicChord(now) =>
                  LET t == poll_turn(poll, stop_flag, focused, now)
                  IN IF now = poll.prev
                     THEN t.send = <<>>
                     ELSE /\ Len(t.send) = 1
                          /\ t.send[1] # None
                          /\ t.send[1][1].now = now
                          /\ t.send[1][1].prev = poll.prev
    /\ DeltaWaiting =>
          LET d == NextDelta
              after == AfterNextDelta
          IN /\ \A k \in Pressed(d) \ {"B"} :
                    key_from_keycode(k) # None => Cardinality(GateOn(after, k)) = 1
             /\ \A k \in Released(d) : GateOn(after, k) = {}
             /\ \A k \in Keyboard \ (Pressed(d) \cup Released(d)) :
                    after[k] = cleanup_finished(active_sinks)[k]

\* the key deltas waiting in the key-delta channel
WaitingDeltas == {rx[i][1] : i \in {j \in 1..Len(rx) : rx[j] # None}}

\* the runtime state r2 is r with the patch rotated once
RotatedOnce(r, r2) ==
    /\ r2.toggle_index = (r.toggle_index + 1) % Len(r.avaliable_patches)
    /\ r2.current_patch = cycle_patch(r).current_patch
    /\ r2.avaliable_patches = r.avaliable_patches

\* C24: the patch list is never empty; every delta that waits carries the
\* cycle flag exactly when B is in its now set and not in its prev set, and
\* the polling thread's next delta will, its prev being the sample before;
\* processing a delta rotates the patch once when the flag is set and
\* leaves patch and index alone when it is not; B never has a voice and is
\* never in the held-key set.
C24_CycleKeyEdge ==
    /\ rt.avaliable_patches # <<>>
    /\ \A d \in WaitingDeltas : d.toggle_b <=> ("B" \in d.now /\ "B" \notin d.prev)
    /\ PollFocused =>
          \A now \in SUBSET scene.keys :
              LET t == poll_turn(poll, stop_flag, focused, now)
              IN /\ t.poll.running => t.poll.prev = now
                 /\ \A i \in 1..Len(t.send) :
                        t.send[i] # None =>
                            (t.send[i][1].toggle_b <=> ("B" \in now /\ "B" \notin poll.prev))
    /\ DeltaWaiting =>
          LET r2 == apply_delta(active_sinks, rt, NextDelta).rt
          IN /\ "B" \notin r2.held_keys
             /\ AfterNextDelta["B"] = <<>>
             /\ IF NextDelta.toggle_b
                THEN RotatedOnce(rt, r2)
                ELSE /\ r2.toggle_index = rt.toggle_index
                     /\ r2.current_patch = rt.current_patch
    /\ "B" \notin rt.held_keys
    /\ active_sinks["B"] = <<>>

\* B has been pressed once and the patch rotated once; B is still held
\* while another key goes down, and the delta that says so waits
C24_Witness ==
    /\ DeltaWaiting
    /\ "B" \in NextDelta.now /\ "B" \in NextDelta.prev
    /\ Pressed(NextDelta) # {}
    /\ rt.toggle_index = 1
    /\ rt.current_patch = "Saw"

\* the polling thread runs, is not told to stop, and reads focus as lost
PollUnfocused == poll.running /\ ~stop_flag /\ ~focused

\* C25: at its first turn after focus is lost the polling thread sends one
\* delta with an empty now set and every key it tracked in prev (nothing
\* when it tracked none) and forgets the keys; at every later turn without
\* focus it sends nothing and stays as it is, whatever keys are down; and
\* processing a delta with an empty now set leaves the held-key set empty
\* and every voice of every key of its prev set with the gate false.
C25_FocusLoss ==
    /\ PollUnfocused =>
          \A now \in SUBSET scene.keys :
              LET t == poll_turn(poll, stop_flag, focused, now)
              IN IF poll.was_focused
                 THEN /\ t.send = IF poll.prev = {} THEN <<>>
                                   ELSE <<Some([now |-> {}, prev |-> poll.prev,
                                                toggle_b |-> FALSE])>>
                      /\ t.poll = [poll EXCEPT !.prev = {}, !.was_focused = FALSE]
                 ELSE t.send = <<>> /\ t.poll = poll
    /\ (DeltaWaiting /\ NextDelta.now = {}) =>
          /\ apply_delta(active_sinks, rt, NextDelta).rt.held_keys = {}
          /\ \A k \in NextDelta.prev : GateOn(AfterNextDelta, k) = {}

\* focus was lost while A and S were held: the bulk key-up has been
\* processed, both voices are released and no key is held
C25_Witness ==
    /\ ~focused /\ ~poll.was_focused /\ poll.running
    /\ rx = <<>>
    /\ rt.held_keys = {}
    /\ active_sinks["A"] # <<>> /\ GateOn(active_sinks, "A") = {}
    /\ active_sinks["S"] # <<>> /\ GateOn(active_sinks, "S") = {}

\* the keys of the delta d that were down at the sample before it and
\* still are, and that the control loop does not hold: the polling thread
\* took them into its baseline when focus returned, without a delta
HeldSinceRefocus(d) == (d.now \cap d.prev) \ (rt.held_keys \cup {"B"})

\* C26: at its first turn after focus returns the polling thread takes the
\* keys that are down as its baseline and sends nothing; and processing
\* any later delta starts no voice for a key that has been down since
\* that turn (its voices are as they were, finished ones removed).
C26_NoKeyDownAfterRefocus ==
    /\ (poll.running /\ ~stop_flag /\ focused /\ ~poll.was_focused) =>
          \A now \in SUBSET scene.keys :
              LET t == poll_turn(poll, stop_flag, focused, now)
              IN t.send = <<>> /\ t.poll = [prev |-> now, was_focused |-> TRUE, running |-> TRUE]
    /\ DeltaWaiting =>
          \A k \in HeldSinceRefocus(NextDelta) :
              AfterNextDelta[k] = cleanup_finished(active_sinks)[k]

\* a turn of the polling thread on the key set now sends the termination
\* message and nothing else, and ends the thread
TerminatesOn(now) ==
    LET t == poll_turn(poll, stop_flag, focused, now)
    IN t.send = <<None>> /\ ~t.poll.running

\* the termination message is the last thing the polling thread ever sent
NothingAfterTermination ==
    \A i \in 1..Len(rx) : rx[i] = None => (i = Len(rx) /\ ~poll.running)

\* C27, as stated: whenever the polling thread runs and is not told to
\* stop, its turn on a key set that holds the panic chord sends the
\* termination message and nothing else and ends the thread; no message
\* follows a termination message; and the control loop, receiving the
\* termination message, leaves its loop.
C27_PanicChordAsStated ==
    /\ (poll.running /\ ~stop_flag) =>
          \A now \in SUBSET scene.keys : PanicChord(now) => TerminatesOn(now)
    /\ NothingAfterTermination
    /\ (ctl = "loop" /\ QuitWaiting) => ENABLED RecvQuit

\* C27, amended: the same for a polling thread in its focused branch
\* (focus held at this turn and at the turn before); without focus, and
\* at the turn at which focus returns, a turn on a key set that holds the
\* panic chord sends no termination message and the thread runs on.
C27_PanicChord ==
    /\ \A now \in SUBSET scene.keys :
          PanicChord(now) =>
              /\ PollFocused => TerminatesOn(now)
              /\ (poll.running /\ ~stop_flag /\ ~PollFocused) =>
                    LET t == poll_turn(poll, stop_flag, focused, now)
                    IN t.poll.running /\ \A i \in 1..Len(t.send) : t.send[i] # None
    /\ NothingAfterTermination
    /\ (ctl = "loop" /\ QuitWaiting) => ENABLED RecvQuit

\* LControl and C went down together under focus: the polling thread has
\* sent the termination message and ended, and the loop has not read it yet
C27_Witness ==
    /\ "Escape" \notin scene.keys /\ ~scene.closes
    /\ ~poll.running /\ ~stop_flag
    /\ ctl = "loop"
    /\ rx = <<None>>

\* Claims on the removal of voices

\* the voices of the table whose gate is false and whose sample sequence
\* has not finished
ReleasedUnfinished == {id \in Voices : ~VoiceOf(id).gate /\ ~sink_empty(VoiceOf(id))}

\* C28: every released voice that has not finished is in a playing sink,
\* so the samples the audio device keeps pulling carry its envelope
\* through the release stage to Done, whatever the volume and the mute
\* setting.
C28_ReleaseCompletes ==
    \A id \in ReleasedUnfinished : ~VoiceOf(id).sink.paused

\* a voice whose sample sequence has finished is in the table
FinishedInTable == \E id \in Voices : sink_empty(VoiceOf(id))

\* no branch of the select! is ready: both channels are empty and open,
\* and no signal has arrived
LoopIdle ==
    /\ ctl = "loop"
    /\ rx = <<>> /\ poll.running
    /\ cmd_rx = <<>> /\ cmd_open
    /\ signal = "none"

\* C29: it never happens that, from some state on, a finished voice sits
\* in the table for ever while no key delta and no command arrives: the
\* loop removes it on its own.
C29_PeriodicCleanup == []<>(~(LoopIdle /\ FinishedInTable))


\* the Adsr with every duration of 0 seconds replaced by one sample
ZeroAsOneSample(adsr) ==
    [adsr EXCEPT !.attack_s = IF @ = 0 THEN 2 ELSE @,
                 !.decay_s = IF @ = 0 THEN 2 ELSE @,
                 !.release_s = IF @ = 0 THEN 2 ELSE @]

\* the AdsrSource s of adsr as it stands when built from ZeroAsOneSample(adsr)
OneSampleTwin(s, adsr) ==
    [s EXCEPT !.envelope.attack_samples = IF adsr.attack_s = 0 THEN 1 ELSE @,
              !.envelope.decay_samples = IF adsr.decay_s = 0 THEN 1 ELSE @,
              !.envelope.release_samples = IF adsr.release_s = 0 THEN 1 ELSE @]

\* to_envelope and step_envelope treat a stage of 0 seconds as a stage of one
\* sample: the steps are defined and equal, and every call returns the same
\* gain and leaves the same stage, position and amplitude
ZeroCollapsesToOneSample ==
    /\ EnvEnvelope.attack_step \in Int
    /\ EnvEnvelope.decay_step \in Int
    /\ EnvEnvelope.release_step \in Int
    /\ to_envelope(ZeroAsOneSample(env_adsr))
          = OneSampleTwin(AdsrSource_new(0, env_adsr), env_adsr).envelope
    /\ \A g \in BOOLEAN :
          LET r == step_envelope(env_src, g)
              t == step_envelope(OneSampleTwin(env_src, env_adsr), g)
          IN /\ r.src.envelope.release_step \in Int
             /\ t.gain = r.gain
             /\ t.src = OneSampleTwin(r.src, env_adsr)

\* a stage of 0 seconds is left by the first call made in it
ZeroStageLeftAfterOne ==
    \A i \in EnvSteps :
        LET e == env_trace[i] IN
        /\ (env_adsr.attack_s = 0 /\ e.before = "Attack") => e.stage # "Attack"
        /\ (env_adsr.decay_s = 0 /\ e.before = "Decay") => e.stage # "Decay"
        /\ (env_adsr.release_s = 0 /\ (e.before = "Release" \/ EnvReleasedAt(i)))
              => e.stage = "Done"

\* the gains the claim names: 1.0 on the sample of a 0-second attack and a
\* decay that goes on from 1.0, sustain on the sample of a 0-second decay,
\* 0 on the sample of a 0-second release
ZeroStageLandings ==
    \A i \in EnvSteps :
        LET e == env_trace[i] IN
        /\ (env_adsr.attack_s = 0 /\ e.before = "Attack" /\ e.stage = "Decay") =>
              /\ e.gain = One
              /\ (i + 1 \in EnvSteps /\ env_trace[i + 1].stage = "Decay") =>
                    env_trace[i + 1].gain = clamp(One - EnvEnvelope.decay_step, 0, One)
        /\ (env_adsr.decay_s = 0 /\ e.before = "Decay" /\ e.stage = "Sustain") =>
              e.gain = EnvEnvelope.sustain
        /\ (env_adsr.release_s = 0 /\ e.stage = "Done"
               /\ (e.before = "Release" \/ EnvReleasedAt(i))) =>
              e.gain = 0

\* C30: for an attack, decay or release of 0 seconds (the other durations
\* >= 0, sustain in [0,1]) to_envelope and step_envelope divide by no zero,
\* the stage is left after exactly one sample, every call behaves as for a
\* stage of exactly one sample, and the gain is 1.0 on the attack's sample
\* with the decay going on from 1.0, sustain on the decay's sample and 0 on
\* the release's sample.
C30_ZeroDurationStage ==
    AdsrInRange(env_adsr) =>
        /\ ZeroCollapsesToOneSample
        /\ ZeroStageLeftAfterOne
        /\ ZeroStageLandings


\* the gates read by the calls of step_envelope made so far
EnvGates == [i \in EnvSteps |-> env_trace[i].gate]

\* step_envelope called once per gate of gates, from source s: the stage left
\* and the gain returned by every call
RECURSIVE RunEnvelope(_, _)
RunEnvelope(s, gates) ==
    IF gates = <<>> THEN <<>>
    ELSE LET r == step_envelope(s, Head(gates))
         IN <<[stage |-> r.src.stage, gain |-> r.gain]>> \o RunEnvelope(r.src, Tail(gates))

\* AdsrSource::next over a run: the gains of the samples emitted, which are
\* those of the calls before the one that enters Done
RECURSIVE EmittedGains(_)
EmittedGains(run) ==
    IF run = <<>> \/ Head(run).stage = "Done" THEN <<>>
    ELSE <<Head(run).gain>> \o EmittedGains(Tail(run))

\* the gain sequence of an envelope built from adsr under the gates read
GainsOf(adsr, gates) == EmittedGains(RunEnvelope(AdsrSource_new(0, adsr), gates))

\* adsr with sustain clamped to [0,1] and negative durations raised to 0
ClampedAdsr(adsr) ==
    [attack_s |-> IF adsr.attack_s < 0 THEN 0 ELSE adsr.attack_s,
     decay_s |-> IF adsr.decay_s < 0 THEN 0 ELSE adsr.decay_s,
     sustain |-> clamp(adsr.sustain, 0, One),
     release_s |-> IF adsr.release_s < 0 THEN 0 ELSE adsr.release_s]

\* C31: under every gate timing an envelope built from an Adsr with sustain
\* outside [0,1] or a negative duration emits the same gain sequence as one
\* built from the Adsr with sustain clamped to [0,1] and the negative
\* durations replaced by 0.
C31_OutOfRangeClamped ==
    GainsOf(env_adsr, EnvGates) = GainsOf(ClampedAdsr(env_adsr), EnvGates)

\* the part of the Adsr that to_envelope does bring into range: a negative
\* duration gives the envelope of duration 0
NegativeDurationIsZero ==
    to_envelope([ClampedAdsr(env_adsr) EXCEPT !.sustain = env_adsr.sustain])
        = to_envelope(env_adsr)

\* Claims on the render path

\* what a voice consists of: the gate's value, the three controls of its
\* sink, and the AdsrSource the sink pulls from
VoiceParts == {"gate", "volume", "paused", "ended", "src"}

Part(v, p) ==
    CASE p = "gate" -> v.gate
      [] p = "volume" -> v.sink.volume
      [] p = "paused" -> v.sink.paused
      [] p = "ended" -> v.sink.ended
      [] p = "src" -> v.src

\* the voice with another value in part p (the source is set one sample
\* further into its stage)
Perturbed(v, p) ==
    CASE p = "gate" -> [v EXCEPT !.gate = ~@]
      [] p = "volume" -> [v EXCEPT !.sink.volume = IF @ = Half THEN One ELSE Half]
      [] p = "paused" -> [v EXCEPT !.sink.paused = ~@]
      [] p = "ended" -> [v EXCEPT !.sink.ended = ~@]
      [] p = "src" -> [v EXCEPT !.src.stage_pos = @ + 1]

\* the render path on one voice: whether the device pulls from it, the
\* voice after the pull, and the sink volume the sample is amplified by
Render(v) ==
    LET runs == ~v.sink.paused /\ ~v.sink.ended
    IN [runs |-> runs,
        after |-> IF runs THEN next_sample(v) ELSE v,
        amplify |-> IF runs THEN <<v.sink.volume>> ELSE <<>>]

\* the control loop on one voice, the only one of a table, under key A: the
\* Vecs left by each PlayState call that touches registered voices
Alone(v) == [k \in {"A"} |-> <<v>>]
Control(v) ==
    <<stop_note(Alone(v), "A")["A"],
      set_all_volume(Alone(v), Half)["A"],
      set_all_volume(Alone(v), One)["A"],
      set_all_muted(Alone(v), TRUE)["A"],
      set_all_muted(Alone(v), FALSE)["A"],
      cleanup_finished(Alone(v))["A"],
      drained(Alone(v))>>

\* the parts other than p in which voices a and b differ
DifferOutside(a, b, p) == \E q \in VoiceParts \ {p} : Part(a, q) # Part(b, q)

\* the parts the render path writes, and those its outcome depends on
RenderWrites(v) ==
    LET after == Render(v).after
    IN {p \in VoiceParts : Part(after, p) # Part(v, p)}
RenderReads(v) ==
    LET rv == Render(v)
    IN {p \in VoiceParts :
           LET rw == Render(Perturbed(v, p))
           IN \/ rw.runs # rv.runs
              \/ rw.amplify # rv.amplify
              \/ DifferOutside(rw.after, rv.after, p)}

\* the parts some call of the control loop writes, and those the outcome of
\* some call depends on
ControlWrites(v) ==
    LET cv == Control(v)
    IN {p \in VoiceParts :
           \E n \in DOMAIN cv : cv[n] # <<>> /\ Part(cv[n][1], p) # Part(v, p)}
ControlReads(v) ==
    LET cv == Control(v)
    IN {p \in VoiceParts :
           LET cw == Control(Perturbed(v, p))
           IN \E n \in DOMAIN cv :
                 \/ Len(cw[n]) # Len(cv[n])
                 \/ /\ cv[n] # <<>>
                    /\ cw[n] # <<>>
                    /\ DifferOutside(cw[n][1], cv[n][1], p)}

\* the parts of a voice that both sides access
RenderAccess(v) == RenderReads(v) \cup RenderWrites(v)
ControlAccess(v) == ControlReads(v) \cup ControlWrites(v)
SharedParts(v) == RenderAccess(v) \cap ControlAccess(v)

RegisteredVoices == {AllVoices(active_sinks)[n] : n \in 1..VoiceCount(active_sinks)}

\* a voice the device renders: registered, its sink neither paused nor empty
Playing(k, i) ==
    /\ i \in 1..Len(active_sinks[k])
    /\ ~active_sinks[k][i].sink.paused
    /\ ~active_sinks[k][i].sink.ended

\* C32 as stated: the next sample of a playing voice can be produced
\* whatever waits for the control loop, and the gate is the only part of a
\* voice that both the render path and the control loop access.
C32_OnlyGateShared ==
    /\ \A k \in Keyboard, i \in 1..MaxVoices : Playing(k, i) => ENABLED Pull(k, i)
    /\ \A v \in RegisteredVoices : SharedParts(v) \subseteq {"gate"}

\* C32: the next sample of a playing voice can be produced whatever waits for
\* the control loop; the render path reads the gate (in Attack, Decay and
\* Sustain) and never writes it, the control loop writes it; the control loop neither reads nor writes the
\* AdsrSource; the parts of a voice that both sides access are the gate and
\* the sink's controls (volume, pause, emptiness), nothing else.
C32_RenderNeverWaits ==
    /\ [](\A k \in Keyboard, i \in 1..MaxVoices : Playing(k, i) => ENABLED Pull(k, i))
    /\ [](\A v \in RegisteredVoices :
            LET reads == RenderReads(v)
                writes == RenderWrites(v)
                stores == ControlWrites(v)
                control == ControlReads(v) \cup stores
            IN /\ "gate" \notin writes
               /\ (Render(v).runs /\ v.src.input > 0
                     /\ v.src.stage \in {"Attack", "Decay", "Sustain"}) => "gate" \in reads
               /\ v.gate => "gate" \in stores
               /\ "src" \notin control
               /\ (reads \cup writes) \cap control
                     \subseteq {"gate", "volume", "paused", "ended"})

\* a released voice is being rendered while a key delta and a command wait
\* for the control loop
C32_Witness ==
    /\ rx # <<>> /\ cmd_rx # <<>>
    /\ \E k \in Keyboard, i \in 1..MaxVoices :
          /\ Playing(k, i)
          /\ ~active_sinks[k][i].gate
          /\ active_sinks[k][i].src.stage = "Release"

\* ----------------------------------------------------------- audio_patch.rs
\* A SynthSource is a boxed iterator; what matters of it here is how it was
\* put together: the generator's output at the bottom, each node's output
\* wrapping its input.  The source is the record of its outermost maker, the
\* frequency when that is the generator, and the wrapped source if any.

\* the most nodes a patch is given
MaxNodes == 3
\* the Node and Generator implementations the patches are built from, and
\* the frequencies asked for
NodeNames == {"node1", "node2", "node3"}
GeneratorNames == {"generator"}
Frequencies == {440, 880}

\* Generator::create
Generator_create(generator, frequency) ==
    [made_by |-> generator, frequency |-> Some(frequency), input |-> None]

\* Node::apply
Node_apply(node, input) ==
    [made_by |-> node, frequency |-> None, input |-> Some(input)]

\* PatchSource::new and PatchSource::push_node
PatchSource_new(generator) == [generator |-> generator, nodes |-> <<>>]
push_node(patch, node) == [patch EXCEPT !.nodes = Append(@, node)]

\* PatchSource::create_source, lines 44-46: the for loop over &self.nodes,
\* from the i-th node on
RECURSIVE apply_from(_, _, _)
apply_from(src, nodes, i) ==
    IF i > Len(nodes) THEN src
    ELSE apply_from(Node_apply(nodes[i], src), nodes, i + 1)

RECURSIVE apply_down_from(_, _, _)
apply_down_from(src, nodes, i) ==
    IF i < 1 THEN src
    ELSE apply_down_from(Node_apply(nodes[i], src), nodes, i - 1)

\* PatchSource::create_source
PatchSource_create_source_reversed(patch, frequency) ==
    apply_down_from(Generator_create(patch.generator, frequency), patch.nodes, Len(patch.nodes))

PatchSource_create_source(patch, frequency) ==
    apply_from(Generator_create(patch.generator, frequency), patch.nodes, 1)

\* AdsrNode::apply (adsr.rs) as play_note uses it, lines 121-123: the
\* source appended to the sink
AdsrNode_apply(input) == Node_apply("ADSR", input)
play_note_source(patch, frequency) ==
    AdsrNode_apply(PatchSource_create_source(patch, frequency))

\* the patch under study
ThePatch == [generator |-> "generator", nodes |-> patch_nodes]

InitPatch ==
    /\ EnvIdle
    /\ SysIdle
    /\ patch_nodes = PatchSource_new("generator").nodes
    /\ patch_freq = None
    /\ patch_src = None
    /\ KeyIdle
    /\ CellIdle

\* push_node moves the patch; sources made from the old value are let go
PushNode(node) ==
    /\ Len(patch_nodes) < MaxNodes
    /\ patch_nodes' = push_node(ThePatch, node).nodes
    /\ patch_freq' = None
    /\ patch_src' = None
    /\ UNCHANGED <<envvars, sysvars, keyvars, cellvars>>

\* create_source is called on the patch
CreateSource(frequency) ==
    /\ patch_freq' = Some(frequency)
    /\ patch_src' = Some(PatchSource_create_source(ThePatch, frequency))
    /\ UNCHANGED <<envvars, sysvars, patch_nodes, keyvars, cellvars>>

\* play_note builds the source of a voice from the patch
PlayNoteSource(frequency) ==
    /\ patch_freq' = Some(frequency)
    /\ patch_src' = Some(play_note_source(ThePatch, frequency))
    /\ UNCHANGED <<envvars, sysvars, patch_nodes, keyvars, cellvars>>

NextPatch ==
    \/ \E node \in NodeNames : PushNode(node)
    \/ \E frequency \in Frequencies : CreateSource(frequency)
    \/ \E frequency \in Frequencies : PlayNoteSource(frequency)

SpecPatch == InitPatch /\ [][NextPatch]_vars

\* the generator's output folded through the nodes in chain order: the last
\* node wraps what the nodes before it made
RECURSIVE Folded(_, _)
Folded(generated, nodes) ==
    IF nodes = <<>> THEN generated
    ELSE Node_apply(nodes[Len(nodes)],
                    Folded(generated, SubSeq(nodes, 1, Len(nodes) - 1)))

\* the makers of a source from the outermost inwards
RECURSIVE MakersOutsideIn(_)
MakersOutsideIn(src) ==
    <<src.made_by>> \o (IF src.input = None THEN <<>> ELSE MakersOutsideIn(src.input[1]))

\* C33: the source create_source returns for frequency f is the generator's
\* output for f folded through the nodes in the order they were pushed,
\* node1 innermost and the last pushed node outermost, for every node list
\* and the empty one; the source play_note builds is the ADSR node applied
\* to exactly that source.
C33_ChainOrder ==
    patch_src # None =>
        LET f == patch_freq[1]
            chain == Folded(Generator_create("generator", f), patch_nodes)
            built == patch_src[1]
            n == Len(patch_nodes)
        IN IF built.made_by = "ADSR"
           THEN /\ built.input = Some(chain)
                /\ MakersOutsideIn(built) =
                      <<"ADSR">> \o [i \in 1..n |-> patch_nodes[n + 1 - i]] \o <<"generator">>
           ELSE /\ built = chain
                /\ MakersOutsideIn(built) =
                      [i \in 1..n |-> patch_nodes[n + 1 - i]] \o <<"generator">>

\* play_note has built a source from a patch of three nodes, two of them
\* different
C33_Witness ==
    /\ patch_src # None
    /\ patch_src[1].made_by = "ADSR"
    /\ Len(patch_nodes) = MaxNodes
    /\ patch_nodes[1] # patch_nodes[MaxNodes]

\* Claims on the length of the release

\* the source after held calls of step_envelope with the gate true
RECURSIVE HeldFor(_, _)
HeldFor(s, held) ==
    IF held = 0 THEN s ELSE HeldFor(step_envelope(s, TRUE).src, held - 1)

\* the number of calls of step_envelope with the gate false that it takes
\* source s to be in Done
RECURSIVE CallsToDone(_)
CallsToDone(s) ==
    IF s.stage = "Done" THEN 0 ELSE 1 + CallsToDone(step_envelope(s, FALSE).src)

\* a release of the envelope of adsr after held samples with the gate true:
\* the amplitude it starts from and the calls it takes to reach Done
ReleaseAfter(adsr, held) ==
    LET s == HeldFor(AdsrSource_new(0, adsr), held)
    IN [amp |-> s.current_amp, samples |-> CallsToDone(s)]

\* the calls at which an envelope can be released while it still sounds
HoldTimes == 0..MaxTrace

\* C34: for the same release time, a release that starts from a lower
\* amplitude takes fewer calls of step_envelope from the gate being read
\* false to Done than a release that starts from a higher amplitude.
C34_ShorterFromLower ==
    AdsrInRange(env_adsr) =>
        \A i \in EnvSteps :
            (EnvReleasedAt(i) /\ env_src.stage = "Done") =>
                LET here == ReleaseAfter(env_adsr, i - 1)
                IN /\ here.amp = env_trace[i].before_amp
                   /\ \A held \in HoldTimes :
                         LET other == ReleaseAfter(env_adsr, held)
                         IN other.amp < here.amp => other.samples < here.samples

\* what the release does take: release_samples calls (one when that is 0),
\* whatever amplitude it starts from
ReleaseLengthFixed ==
    \A held \in HoldTimes :
        ReleaseAfter(env_adsr, held).samples
            = (IF EnvEnvelope.release_samples > 0 THEN EnvEnvelope.release_samples ELSE 1)

\* Claims on the timing of attack and decay

\* the samples a stage of n samples takes: a stage of 0 samples takes one
\* (the spec's max(1, round(seconds * sample rate)))
StageSamples(n) == IF n > 0 THEN n ELSE 1

\* C35: with the gate held true, counting the samples from 1 and a stage of
\* 0 samples as one sample: the gain is below 1.0 on every sample before
\* sample number attack_samples, where it is k * attack_step on sample k
\* and the stage still Attack; it is 1.0 on sample number attack_samples,
\* which leaves the envelope in Decay; and the envelope is in Sustain after
\* sample number attack_samples + decay_samples and after every later
\* sample, and after no earlier one.
C35_AttackDecayTiming ==
    EnvGateHeld =>
        LET attack == StageSamples(EnvEnvelope.attack_samples)
            decay == StageSamples(EnvEnvelope.decay_samples)
        IN \A k \in EnvSteps :
              LET e == env_trace[k] IN
              /\ k < attack =>
                    /\ e.gain < One
                    /\ e.gain = k * EnvEnvelope.attack_step
                    /\ e.stage = "Attack"
              /\ k = attack => e.gain = One /\ e.stage = "Decay"
              /\ e.stage = "Sustain" <=> k >= attack + decay

\* an attack and a decay of two samples each, gate held true, stepped into
\* Sustain and once more
C35_Witness ==
    /\ EnvGateHeld
    /\ EnvEnvelope.attack_samples = 2
    /\ EnvEnvelope.decay_samples = 2
    /\ Len(env_trace) > 4
    /\ env_src.stage = "Sustain"

\* Claims on the samples AdsrSource yields

\* AdsrSource::next on source s with the gate as read and x what the input
\* yields (None when the input has ended): the source after the call and
\* the sample returned
AdsrSource_next_unchecked(s, gate, x) ==
    IF s.stage = "Done" \/ x = None THEN [src |-> s, out |-> None]
    ELSE LET r == step_envelope(s, gate)
         IN [src |-> r.src, out |-> Some(x[1] * r.gain)]

AdsrSource_next(s, gate, x) ==
    IF s.stage = "Done" \/ x = None THEN [src |-> s, out |-> None]
    ELSE LET r == step_envelope(s, gate)
         IN IF r.src.stage = "Done"
            THEN [src |-> r.src, out |-> None]
            ELSE [src |-> r.src, out |-> Some(x[1] * r.gain)]

\* the sample the input yields at the j-th call: full scale on the odd
\* calls, minus half scale on the even ones
InputAt(j) == IF j % 2 = 1 THEN One ELSE 0 - Half

\* next called once per gate of gates on source s, the first call being
\* call number j: what each call returned
RECURSIVE NextOuts(_, _, _)
NextOuts(s, gates, j) ==
    IF gates = <<>> THEN <<>>
    ELSE LET r == AdsrSource_next(s, Head(gates), Some(InputAt(j)))
         IN <<r.out>> \o NextOuts(r.src, Tail(gates), j + 1)

\* what next returned at each call made so far, had the source been pulled
\* through next
EnvOuts == NextOuts(AdsrSource_new(0, env_adsr), EnvGates, 1)

\* C36: next returns no sample on the call at which the envelope enters
\* Done nor on any later call; once Done is reached, the samples returned
\* from the call that first read the gate false on are release_samples - 1
\* (none when release_samples is 0); every sample returned is the input
\* sample times the gain of that call, a gain within [0,1].
C36_EmittedSamples ==
    LET outs == EnvOuts
    IN \A i \in EnvSteps :
          LET e == env_trace[i]
              n == EnvEnvelope.release_samples
          IN /\ e.stage = "Done" => outs[i] = None
             /\ outs[i] # None =>
                   /\ outs[i][1] = InputAt(i) * e.gain
                   /\ e.gain >= 0 /\ e.gain <= One
             /\ (EnvReleasedAt(i) /\ env_src.stage = "Done") =>
                   Cardinality({j \in i..Len(env_trace) : outs[j] # None})
                       = (IF n > 0 THEN n - 1 ELSE 0)

\* released in Sustain with a release of two samples: one sample was
\* returned after the release, then Done was entered and next called again
C36_Witness ==
    /\ EnvEnvelope.release_samples = 2
    /\ env_src.stage = "Done"
    /\ \E i \in EnvSteps :
          /\ EnvReleasedAt(i)
          /\ env_trace[i].before = "Sustain"
          /\ env_trace[i].gain > 0
          /\ EnvOuts[i] # None
          /\ Len(env_trace) >= i + 2

\* Claims on the patch rotation

\* the element of the available-patch list at toggle_index (a 0-based index)
PatchAtIndex(r) == r.avaliable_patches[r.toggle_index + 1]

\* cycle_patch called n times
RECURSIVE CycledTimes(_, _)
CycledTimes(r, n) == IF n = 0 THEN r ELSE CycledTimes(cycle_patch(r), n - 1)

\* the runtime state run_audio starts with, lines 158-172
DefaultPatches ==
    [rt EXCEPT !.avaliable_patches = BasicKinds, !.toggle_index = 0,
               !.current_patch = basic_source("Sine")]

\* with the default list the rotation gives Sine, Saw, Square, Triangle,
\* Noise and Sine again
DefaultOrder ==
    [n \in 1..6 |-> CycledTimes(DefaultPatches, n - 1).current_patch]
        = <<"Sine", "Saw", "Square", "Triangle", "Noise", "Sine">>

\* C37: processing a delta with the cycle flag advances toggle_index by 1
\* modulo the length of the available-patch list and makes the list element
\* at toggle_index the active patch and the patch name published;
\* TogglePatch(patches) with a non-empty list installs the list with index 0,
\* makes patches[0] the active and published patch, and len(patches)
\* rotations from there return to patches[0]; with the default list the
\* order is Sine, Saw, Square, Triangle, Noise, Sine.
C37_RotationWalksList ==
    /\ DefaultOrder
    /\ (DeltaWaiting /\ NextDelta.toggle_b) =>
          LET after == apply_delta(active_sinks, rt, NextDelta)
          IN /\ after.rt.toggle_index = (rt.toggle_index + 1) % Len(rt.avaliable_patches)
             /\ after.rt.current_patch = PatchAtIndex(after.rt)
             /\ after.published # None
             /\ after.published[1].patch_name = PatchAtIndex(after.rt)
    /\ (CommandWaiting /\ NextCommand.kind = "TogglePatch" /\ NextCommand.patches # <<>>) =>
          LET after == AfterNextCommand
              patches == NextCommand.patches
          IN /\ after.rt.avaliable_patches = patches
             /\ after.rt.toggle_index = 0
             /\ after.rt.current_patch = patches[1]
             /\ after.snapshot.patch_name = patches[1]
             /\ CycledTimes(after.rt, Len(patches)).current_patch = patches[1]

\* the part of C37 that is about the list run_audio starts with
RotationOnDefaultList ==
    /\ DefaultOrder
    /\ (DeltaWaiting /\ NextDelta.toggle_b /\ rt.avaliable_patches = BasicKinds) =>
          LET after == apply_delta(active_sinks, rt, NextDelta)
          IN /\ after.rt.toggle_index = (rt.toggle_index + 1) % Len(rt.avaliable_patches)
             /\ after.rt.current_patch = PatchAtIndex(after.rt)
             /\ after.published # None
             /\ after.published[1].patch_name = PatchAtIndex(after.rt)

\* Claims on the life of a gate

\* a voice as play_note registers it: gate true, nothing pulled yet
Fresh(w) ==
    /\ w.gate
    /\ ~w.sink.ended
    /\ w.src = AdsrSource_new(create_source(w.patch, "A"), w.adsr)

\* w is voice v as it is now or after one more sample, whatever was stored
\* into its gate and its sink
SameVoice(v, w) ==
    /\ w.patch = v.patch
    /\ w.adsr = v.adsr
    /\ w.src = v.src \/ w.src = next_sample(v).src

\* C38: play_note registers a voice with its gate true, also for a key that
\* still has a releasing voice, which keeps its own gate; pulling a sample
\* leaves the gate as it is, and a voice in Release or Done stays there; no
\* call of the control loop turns a false gate true; and over every step a
\* voice whose gate is true afterwards is either newly registered or was a
\* voice of the same key with its gate true before the step.
C38_GateMonotone ==
    /\ [](\A v \in RegisteredVoices :
            /\ next_sample(v).gate = v.gate
            /\ v.src.stage \in {"Release", "Done"} =>
                  next_sample(v).src.stage \in {"Release", "Done"}
            /\ ~v.gate =>
                  LET calls == Control(v)
                  IN \A n \in DOMAIN calls : calls[n] # <<>> => ~calls[n][1].gate)
    /\ [](DeltaWaiting =>
            \A k \in Pressed(NextDelta) :
                key_from_keycode(k) # None =>
                    LET voices == AfterNextDelta[k]
                    IN voices # <<>> /\ Fresh(voices[Len(voices)]))
    /\ [][\A k \in Keyboard :
            \A i \in 1..Len(active_sinks'[k]) :
                LET w == active_sinks'[k][i]
                IN w.gate =>
                      \/ Fresh(w)
                      \/ \E j \in 1..Len(active_sinks[k]) :
                            active_sinks[k][j].gate /\ SameVoice(active_sinks[k][j], w)]_vars

\* key A was released and pressed again: its first voice is in Release with
\* its gate false after a sample was pulled, its second voice has its gate
\* true
C38_Witness ==
    /\ Len(active_sinks["A"]) = 2
    /\ ~active_sinks["A"][1].gate
    /\ active_sinks["A"][1].src.stage = "Release"
    /\ active_sinks["A"][2].gate

\* --------------------------------------------------------- audio_system.rs
\* A channel pair is the command queue (mpsc) and the snapshot value (watch)
\* created together by get_handle; senders, receivers and handles name the
\* pair they belong to by its number in channels.

\* the most calls of take_runtime_channels, and the most commands queued
MaxTakes == 3
MaxSent == 2
\* who calls get_handle: the UI and run_audio (play.rs:154)
Callers == {"ui", "run_audio"}

\* get_handle, lines 69-73
InitialSnapshot == [volume |-> One, muted |-> FALSE, patch_name |-> "Sine"]

\* get_handle: the OnceCell and the channels after the call and the handle
\* returned
get_handle(cell, chans) ==
    IF cell # None
    THEN [AUDIO |-> cell, channels |-> chans, handle |-> cell[1].handle]
    ELSE LET id == Len(chans) + 1
             sys == [handle |-> [tx |-> id, snapshot_rx |-> id],
                     cmd_rx |-> Some(id),
                     snapshot_tx |-> id]
         IN [AUDIO |-> Some(sys),
             channels |-> Append(chans, [queue |-> <<>>, snapshot |-> InitialSnapshot]),
             handle |-> sys.handle]

\* take_runtime_channels: the OnceCell after the call, and what was returned
\* or the message of the panic
take_runtime_channels_sharing(cell, chans) ==
    IF cell = None
    THEN [AUDIO |-> cell, returned |-> None, panic |-> "call get_handle() first"]
    ELSE [AUDIO |-> cell,
          returned |-> Some([rx |-> cell[1].handle.tx,
                             snapshot_tx |-> cell[1].snapshot_tx,
                             initial |-> chans[cell[1].snapshot_tx].snapshot]),
          panic |-> ""]

take_runtime_channels(cell, chans) ==
    IF cell = None
    THEN [AUDIO |-> cell, returned |-> None, panic |-> "call get_handle() first"]
    ELSE IF cell[1].cmd_rx = None
    THEN [AUDIO |-> cell, returned |-> None, panic |-> "audio runtime already taken"]
    ELSE [AUDIO |-> Some([cell[1] EXCEPT !.cmd_rx = None]),
          returned |-> Some([rx |-> cell[1].cmd_rx[1],
                             snapshot_tx |-> cell[1].snapshot_tx,
                             initial |-> chans[cell[1].snapshot_tx].snapshot]),
          panic |-> ""]

InitCell ==
    /\ EnvIdle
    /\ SysIdle
    /\ PatchIdle
    /\ KeyIdle
    /\ AUDIO = None
    /\ channels = <<>>
    /\ handles = [c \in Callers |-> None]
    /\ takes = <<>>

\* a caller obtains its handle
GetHandle(c) ==
    /\ handles[c] = None
    /\ LET r == get_handle(AUDIO, channels)
       IN /\ AUDIO' = r.AUDIO
          /\ channels' = r.channels
          /\ handles' = [handles EXCEPT ![c] = Some(r.handle)]
    /\ UNCHANGED <<envvars, sysvars, patchvars, keyvars, takes>>

\* a control loop starts and asks for the runtime channels
TakeRuntimeChannels ==
    /\ Len(takes) < MaxTakes
    /\ LET r == take_runtime_channels(AUDIO, channels)
       IN /\ AUDIO' = r.AUDIO
          /\ takes' = Append(takes, [returned |-> r.returned, panic |-> r.panic])
    /\ UNCHANGED <<envvars, sysvars, patchvars, keyvars, channels, handles>>

\* AudioHandle::set_muted: a caller sends a command through its handle
HandleSend(c, m) ==
    /\ handles[c] # None
    /\ LET id == handles[c][1].tx
       IN /\ Len(channels[id].queue) < MaxSent
          /\ channels' = [channels EXCEPT ![id].queue = Append(@, SetMuted(m))]
    /\ UNCHANGED <<envvars, sysvars, patchvars, keyvars, AUDIO, handles, takes>>

\* the owner of the snapshot sender publishes a snapshot
OwnerPublish(m) ==
    /\ \E i \in 1..Len(takes) :
          /\ takes[i].returned # None
          /\ LET id == takes[i].returned[1].snapshot_tx
             IN /\ channels[id].snapshot.muted # m
                /\ channels' = [channels EXCEPT ![id].snapshot.muted = m]
    /\ UNCHANGED <<envvars, sysvars, patchvars, keyvars, AUDIO, handles, takes>>

NextCell ==
    \/ \E c \in Callers : GetHandle(c)
    \/ TakeRuntimeChannels
    \/ \E c \in Callers, m \in BOOLEAN : HandleSend(c, m)
    \/ \E m \in BOOLEAN : OwnerPublish(m)

SpecCell == InitCell /\ [][NextCell]_vars

\* the calls of take_runtime_channels that returned the channels
Owners == {i \in 1..Len(takes) : takes[i].returned # None}

\* C39: one channel pair is ever created and every handle obtained from
\* get_handle names it; a call of take_runtime_channels returns the channels
\* exactly when get_handle has run and no earlier call has returned them, so
\* at most one call does; what it returns is the receiver of the handles'
\* command queue, the sender of their snapshot channel and the initial
\* snapshot (volume 1.0, not muted, patch "Sine"); every call after it
\* panics with "audio runtime already taken".
C39_SingleOwner ==
    /\ Len(channels) <= 1
    /\ \A c \in Callers :
          handles[c] # None =>
              /\ AUDIO # None
              /\ handles[c][1] = AUDIO[1].handle
              /\ handles[c][1].tx = handles[c][1].snapshot_rx
    /\ Cardinality(Owners) <= 1
    /\ \A i \in 1..Len(takes) :
          /\ takes[i].returned # None <=>
                /\ takes[i].panic # "call get_handle() first"
                /\ \A j \in 1..(i - 1) : takes[j].returned = None
          /\ takes[i].returned # None =>
                /\ AUDIO # None /\ AUDIO[1].cmd_rx = None
                /\ takes[i].returned[1].rx = AUDIO[1].handle.tx
                /\ takes[i].returned[1].snapshot_tx = AUDIO[1].handle.snapshot_rx
                /\ takes[i].returned[1].initial = InitialSnapshot
                /\ \A j \in (i + 1)..Len(takes) :
                      takes[j].panic = "audio runtime already taken"

\* both callers hold a handle, a command is queued, the first take returned
\* the channels, its owner published a muted snapshot, and a second take
\* was made
C39_Witness ==
    /\ \A c \in Callers : handles[c] # None
    /\ Len(takes) = 2
    /\ takes[1].returned # None
    /\ takes[2].returned = None
    /\ channels[1].queue # <<>>
    /\ channels[1].snapshot.muted

\* ------------------------------------------------------------------ key.rs
\* the keys drawn at the start are in the octaves -MaxOctave..MaxOctave; a
\* transpose moves by up to MaxShift semitones either way and is followed
\* as long as the key stays within the octaves up to those of the keyboard
MaxOctave == 2
MaxShift == 13
SEMITONES_PER_OCTAVE == 12

\* enum Note, in the order of its discriminants 0..11
Notes == <<"C", "Db", "D", "Eb", "E", "F", "Gb", "G", "Ab", "A", "Bb", "B">>

\* note_semitone: note as i32
note_semitone(note) ==
    CASE note = "C" -> 0
      [] note = "Db" -> 1
      [] note = "D" -> 2
      [] note = "Eb" -> 3
      [] note = "E" -> 4
      [] note = "F" -> 5
      [] note = "Gb" -> 6
      [] note = "G" -> 7
      [] note = "Ab" -> 8
      [] note = "A" -> 9
      [] note = "Bb" -> 10
      [] note = "B" -> 11
      [] OTHER -> 0 - 1

\* Rust's / and % on i32 truncate towards zero
trunc_div(a, b) ==
    LET q == (IF a < 0 THEN 0 - a ELSE a) \div (IF b < 0 THEN 0 - b ELSE b)
    IN IF (a < 0) = (b < 0) THEN q ELSE 0 - q
trunc_rem(a, b) == a - b * trunc_div(a, b)

\* i32::div_euclid and i32::rem_euclid
rem_euclid(a, b) ==
    LET r == trunc_rem(a, b)
    IN IF r < 0 THEN r + (IF b < 0 THEN 0 - b ELSE b) ELSE r
div_euclid(a, b) ==
    LET q == trunc_div(a, b)
    IN IF trunc_rem(a, b) < 0 THEN (IF b > 0 THEN q - 1 ELSE q + 1) ELSE q

\* key_absolute_semitone
key_absolute_semitone(key) == key.octave * SEMITONES_PER_OCTAVE + note_semitone(key.note)

\* key_transpose, lines 83-98: the match on the new note value
note_of_value(v) ==
    CASE v = 0 -> "C"
      [] v = 1 -> "Db"
      [] v = 2 -> "D"
      [] v = 3 -> "Eb"
      [] v = 4 -> "E"
      [] v = 5 -> "F"
      [] v = 6 -> "Gb"
      [] v = 7 -> "G"
      [] v = 8 -> "Ab"
      [] v = 9 -> "A"
      [] v = 10 -> "Bb"
      [] v = 11 -> "B"
      [] OTHER -> "unreachable"

\* key_transpose
key_transpose_truncating(key, semitones) ==
    LET new_absolute == key_absolute_semitone(key) + semitones
        new_octave == trunc_div(new_absolute, SEMITONES_PER_OCTAVE)
        new_note_value == trunc_rem(new_absolute, SEMITONES_PER_OCTAVE)
    IN create_key(note_of_value(new_note_value), new_octave)

key_transpose(key, semitones) ==
    LET new_absolute == key_absolute_semitone(key) + semitones
        new_octave == div_euclid(new_absolute, SEMITONES_PER_OCTAVE)
        new_note_value == rem_euclid(new_absolute, SEMITONES_PER_OCTAVE)
    IN create_key(note_of_value(new_note_value), new_octave)

\* the key codes drawn: every code of the layout table and three others
Keycodes ==
    {"A", "S", "D", "F", "G", "H", "J", "K", "L", "Semicolon", "Apostrophe",
     "W", "E", "T", "Y", "U", "O", "P", "Z", "B", "Escape"}
Octaves == (0 - MaxOctave)..(MaxOctave + KEYBOARD_BASE_OCTAVE)
Shifts == (0 - MaxShift)..MaxShift

InitKey ==
    /\ EnvIdle
    /\ SysIdle
    /\ PatchIdle
    /\ CellIdle
    /\ key_k \in {create_key(Notes[i], o) : i \in 1..12, o \in (0 - MaxOctave)..MaxOctave}
    /\ key_prev = key_k
    /\ key_n = 0

\* Key::transpose is called on the key
Transpose(n) ==
    /\ key_transpose(key_k, n).octave \in Octaves
    /\ key_prev' = key_k
    /\ key_n' = n
    /\ key_k' = key_transpose(key_k, n)
    /\ UNCHANGED <<envvars, sysvars, patchvars, cellvars>>

\* Key::from_keycode gives the key of a mapped key code
FromKeycode(code) ==
    /\ key_from_keycode(code) # None
    /\ key_k' = key_from_keycode(code)[1]
    /\ key_prev' = key_k'
    /\ key_n' = 0
    /\ UNCHANGED <<envvars, sysvars, patchvars, cellvars>>

NextKey ==
    \/ \E n \in Shifts : Transpose(n)
    \/ \E code \in Keycodes : FromKeycode(code)

SpecKey == InitKey /\ [][NextKey]_vars

\* C40: the key is the key before transposed by the last shift; for the key
\* k and all n, m within MaxShift: the absolute semitone of transpose(k, n)
\* is that of k plus n, its note is one of the twelve with index 0..11,
\* transposing back by -n gives k, and transposing by n and then by m is
\* transposing by n + m; distinct mapped key codes give distinct Keys.
C40_TransposeAlgebra ==
    /\ key_k = key_transpose(key_prev, key_n)
    /\ \A n \in Shifts :
          LET t == key_transpose(key_k, n)
          IN /\ key_absolute_semitone(t) = key_absolute_semitone(key_k) + n
             /\ note_semitone(t.note) \in 0..11
             /\ note_of_value(note_semitone(t.note)) = t.note
             /\ key_transpose(t, 0 - n) = key_k
             /\ \A m \in Shifts : key_transpose(t, m) = key_transpose(key_k, n + m)
    /\ \A c1 \in Keycodes, c2 \in Keycodes :
          (c1 # c2 /\ key_from_keycode(c1) # None) =>
              key_from_keycode(c1) # key_from_keycode(c2)

\* a key in a negative octave reached by transposing down across an octave
\* boundary
C40_Witness ==
    /\ key_n < 0
    /\ key_k.octave < 0
    /\ key_prev.octave > key_k.octave
    /\ key_k.note # "C"
=============================================================================
